---- MODULE Spec2Model ----
(***************************************************************************)
(* Contact discovery of gmaps-lead-scraper.                                *)
(*                                                                         *)
(*   Spec          findAllContacts (lib/contactDiscovery.ts) driving       *)
(*                 scrapeTeamPage and searchForDecisionMakers              *)
(*                 (lib/googleSearch.ts, listed in README.md).             *)
(*   SpecFirecrawl scrapeTeamPagesWithFirecrawl, the Firecrawl page pass.  *)
(*   SpecName      isValidName (lib/googleSearch.ts) on bounded texts.     *)
(***************************************************************************)
EXTENDS Integers, Sequences, FiniteSets, TLC

\* --------------------------------------------------------------- bounds

\* Largest number of contacts one fetched team page yields.
MaxPageBlock == 12
\* Largest number of contacts one search response yields.
MaxSearchBlock == 4

\* Largest number of words of a text handed to isValidName.
MaxWords == 5
\* Largest number of contacts one Firecrawl page yields.
MaxFcBlock == 11
\* Largest credit balance the account request reports.
MaxCredits == 100
\* Largest number of words of a name a pattern matches.
MaxMatchWords == 4
\* Largest number of pattern matches in a text an extractor is called with.
MaxMatches == 2
\* Largest number of extractor calls made one after another.
MaxCalls == 3
\* Largest number of leads of a job.
MaxLeads == 3
\* Largest number of contacts findAllContacts returns to the route.
MaxLeadContacts == 2
\* Largest number of scrape runs made one after another.
MaxRuns == 2
\* Largest number of places a scrape run retrieves.
MaxPlaces == 2
\* Largest number of leads of a market.
MaxMarketLeads == 2
\* Largest number of leads of a job whose emails are validated.
MaxJobLeads == 2
\* Largest number of email variations of a contact.
MaxVariations == 3

\* ------------------------------------------------------ program constants

\* teamPaths.length in scrapeTeamPage
NumTeamPaths == 8
\* queries.length in searchForDecisionMakers
NumQueries == 3
\* `if (contacts.length >= 5) break` in scrapeTeamPage
TeamBreakAt == 5
\* `contactsWithSource.slice(0, 10)` in scrapeTeamPage
TeamLimit == 10
\* `uniqueContacts.slice(0, 5)` in searchForDecisionMakers
SearchLimit == 5
\* `uniqueContacts.slice(0, 15)` in findAllContacts
MaxContacts == 15
\* `quotaRemaining < 10`: the credits the validating route needs to begin.
MinCredits == 10
\* The patterns of extractContactsFromText (pattern1 to pattern4) and of
\* extractContactsFromMarkdown (the array `patterns`).
NumTextPatterns == 4
NumMarkdownPatterns == 5

\* TEAM_PATHS.length of the Firecrawl scraper
NumFcPaths == 3
\* `unique.slice(0, 10)` in deduplicateContacts of the Firecrawl scraper
FcLimit == 10

\* ------------------------------------------------------------ variables

VARIABLES
    pc,               \* position of the one flow of control of findAllContacts
    websiteUrl,       \* argument: "null", "string" or "nonString"
    apiKey,           \* process.env.SERPER_API_KEY is set
    pathIdx,          \* index into teamPaths of the current loop iteration
    contacts,         \* scrapeTeamPage: the local array `contacts`
    teamPageContacts, \* findAllContacts: what scrapeTeamPage returned
    queryIdx,         \* index into queries of the current loop iteration
    gContacts,        \* searchForDecisionMakers: the local array `contacts`
    googleContacts,   \* findAllContacts: what searchForDecisionMakers returned
    allContacts,      \* findAllContacts: the local array `allContacts`
    result,           \* the array findAllContacts resolves with
    inflight,         \* network calls issued and not yet answered
    nPageReq,         \* page requests issued so far
    nSearchReq,       \* search requests issued so far
    pageFails,        \* page requests that threw
    searchFails,      \* search requests that threw
    \* scrapeTeamPagesWithFirecrawl
    fcPc,             \* position of its flow of control
    fcProbe,          \* what the account (balance) request gave
    fcPathIdx,        \* index into TEAM_PATHS of the current loop iteration
    fcContacts,       \* the local array `contacts`
    fcResult,         \* the FirecrawlResult the function resolves with
    fcLog,            \* the outcome of every firecrawl.scrape call, in order
    fcInflight,       \* firecrawl.scrape calls issued and not yet answered
    \* isValidName
    validFirstNames,  \* the module-level Set of first names
    nameTokens,       \* the words the text was written from
    text,             \* the argument of isValidName, a sequence of characters
    nameResult,       \* whether isValidName was called, and what it returned
    \* parseFullName (both modules)
    candidate,        \* the name text a pattern matched, a sequence of characters
    parsed,           \* which parseFullName was called, and what it returned
    \* generateEmails
    emailArgs,        \* its arguments firstName, lastName, domain (characters)
    domainParts,      \* the parts the domain argument was written from
    emailResult,      \* whether it was called, and the array it returned
    normalized,       \* extractDomain of the domain argument, applied once and
                      \* twice, and generateEmails of the former
    \* extractContactsFromText, extractContactsFromMarkdown
    extractor,        \* which of the two is called: "text" or "markdown"
    texts,            \* the two texts it is called with, as lists of matches
    extractions,      \* the calls made so far: the text and the list returned
    patternLastIndex, \* lastIndex of the pattern objects of the last call
    \* POST /api/find-contacts
    bulkPc,           \* position of the handler's flow of control
    leadCount,        \* leadsData.length; -1 when the select gave an error
    leadIdx,          \* index into leadsData of the current loop iteration
    leadContacts,     \* contacts.length of the current lead
    contactIdx,       \* index into contacts of the current inner iteration
    bulkInflight,     \* awaited calls issued and not yet answered
    started,          \* the leads whose discovery was started, in order
    handled,          \* per lead: the contacts found, the inserts answered,
                      \* the inserts that succeeded, whether the lead threw
    delayedAfter,     \* the leads after which the inter-lead delay was awaited
    totalContactsFound, \* the counter of saved contacts
    leadsProcessed,   \* the counter of leads handled to the end
    bulkErrors,       \* errors.length
    bulkResponse,     \* the HTTP status answered, 0 while there is none
    \* POST /api/scrape
    scrapePc,         \* position of the handler's flow of control
    leadsTable,       \* the rows of the table leads, in the order of insertion
    runNo,            \* the number of the scrape run, which is its job id
    placeCount,       \* items.length of the run
    placeIdx,         \* index into placesData of the current loop iteration
    placeId,          \* place.placeId || null of the current place
    existingLead,     \* the row the select gave, 0 for none
    insertedCount,    \* the counter of inserted leads of the run
    updatedCount,     \* the counter of updated leads of the run
    callFailed,       \* the database call answered last gave an error
    \* POST /api/markets/[keyword]/[location]/find-contacts, two requests
    mPc,              \* per request: position of the handler's flow of control
    mLeadIdx,         \* per request: index of the current lead
    mCount,           \* per request: existingContacts of the current lead,
                      \* -1 for null
    mContacts,        \* per request: result.contacts.length of the current lead
    mContactIdx,      \* per request: index of the current contact
    contactRows,      \* table contacts: per lead and request, the rows inserted
    mDiscovered,      \* the discoveries run: request, lead, rows at the check
    mStartedAfter,    \* per request: the requests answered before it began
    \* POST /api/find-contacts, the version that validates the emails
    zPc,              \* position of the handler's flow of control
    quotaRemaining,   \* the tracked quota: null, a number or NaN
    quotaAtStart,     \* what getRemainingCredits returned before the loop
    zLeadCount,       \* leadsData.length
    zLeadIdx,         \* index of the current lead
    zContacts,        \* contacts.length of the current lead
    zContactIdx,      \* index of the current contact
    zVariations,      \* emailVariations.length of the current contact
    zVariationIdx,    \* index of the current variation
    validEmail,       \* index of the variation held by validEmail, 0 for null
    emailStatus,      \* the local emailStatus
    zAnswer,          \* status of the validation answered last
    zRow,             \* email and email_status of the row inserted last
    zStarted,         \* the number of leads whose processing began
    totalEmailsValidated, \* the counter of validateEmail calls
    \* POST /api/scrape: the row of the job in scrape_jobs
    jobPc,            \* position of the handler's flow of control
    jobNo,            \* the number of the request being handled
    jobStatus,        \* per request: status of its job row, "none" without row
    jobHistory,       \* per request: the statuses its job row has had
    jobResponse,      \* per request: the HTTP status answered, 0 for none
    \* POST /api/scrape: the update of an existing lead
    existingRow,      \* the row of the lead the select gave
    place,            \* the fields of the place as the actor returned it
    rowAfter          \* whether the update was made, and the row after it

dvars == << pc, websiteUrl, apiKey, pathIdx, contacts, teamPageContacts,
            queryIdx, gContacts, googleContacts, allContacts, result,
            inflight, nPageReq, nSearchReq, pageFails, searchFails >>

fvars == << fcPc, fcProbe, fcPathIdx, fcContacts, fcResult, fcLog, fcInflight >>

nvars == << validFirstNames, nameTokens, text, nameResult >>

pvars == << candidate, parsed >>

evars == << emailArgs, domainParts, emailResult, normalized >>

\* The variables of the pure functions and routes next to the pipeline.
rvars == << extractor, texts, extractions, patternLastIndex >>

bvars == << bulkPc, leadCount, leadIdx, leadContacts, contactIdx,
            bulkInflight, started, handled, delayedAfter, totalContactsFound,
            leadsProcessed, bulkErrors, bulkResponse >>

svars == << scrapePc, leadsTable, runNo, placeCount, placeIdx, placeId,
            existingLead, insertedCount, updatedCount, callFailed >>

mvars == << mPc, mLeadIdx, mCount, mContacts, mContactIdx, contactRows,
            mDiscovered, mStartedAfter >>

zvars == << zPc, quotaRemaining, quotaAtStart, zLeadCount, zLeadIdx,
            zContacts, zContactIdx, zVariations, zVariationIdx, validEmail,
            emailStatus, zAnswer, zRow, zStarted, totalEmailsValidated >>

jvars == << jobPc, jobNo, jobStatus, jobHistory, jobResponse >>

uvars == << existingRow, place, rowAfter >>

xvars == << pvars, evars, rvars, bvars, svars, mvars, zvars, jvars, uvars >>

\* What a step of one of them leaves alone.
othersOfParse ==
    << dvars, fvars, nvars, evars, rvars, bvars, svars, mvars, zvars,
       jvars, uvars >>
othersOfEmail ==
    << dvars, fvars, nvars, pvars, rvars, bvars, svars, mvars, zvars,
       jvars, uvars >>
othersOfExtract ==
    << dvars, fvars, nvars, pvars, evars, bvars, svars, mvars, zvars,
       jvars, uvars >>
othersOfBulk ==
    << dvars, fvars, nvars, pvars, evars, rvars, svars, mvars, zvars,
       jvars, uvars >>
othersOfMarket ==
    << dvars, fvars, nvars, pvars, evars, rvars, bvars, svars, zvars,
       jvars, uvars >>
othersOfValidate ==
    << dvars, fvars, nvars, pvars, evars, rvars, bvars, svars, mvars, jvars,
       uvars >>
othersOfJob ==
    << dvars, fvars, nvars, pvars, evars, rvars, bvars, svars, mvars, zvars,
       uvars >>
othersOfUpdate ==
    << dvars, fvars, nvars, pvars, evars, rvars, bvars, svars, mvars, zvars,
       jvars >>
othersOfScrape ==
    << dvars, fvars, nvars, pvars, evars, rvars, bvars, mvars, zvars,
       jvars, uvars >>

vars == << dvars, fvars, nvars, xvars >>

\* -------------------------------------------------------------- helpers

Min(a, b) == IF a < b THEN a ELSE b

\* A full name is its letters (key) and how they are cased.  The extractors
\* produce "Title" and "UPPER" casings of the same letters.
Casings == {"Title", "UPPER"}

\* Mutant: the names are compared as they are written.
ToLowerCase_Missing(name) == name

\* String.prototype.toLowerCase on a full name.
ToLowerCase(name) == [name EXCEPT !.cased = "lower"]

\* Array.prototype.slice(0, n)
Slice(s, n) == SubSeq(s, 1, Min(n, Len(s)))

\* The title an extractor attaches, per casing style of the matched text.
TitleOf(cased) == IF cased = "Title" THEN "CEO" ELSE "Founder"

\* The contacts extracted from one text: names first .. first+len-1, all in
\* one casing, with the source tag the extractor sets ("none": no tag).
Block(first, len, cased, source) ==
    [ i \in 1..len |->
        [ fullName |-> [key |-> first + i - 1, cased |-> cased],
          title    |-> TitleOf(cased),
          source   |-> source ] ]

\* What axios.get + extractContacts give for one team page path: the request
\* throws, or the page holds no, two or MaxPageBlock names.
PageResponses ==
    { [ok |-> FALSE, found |-> << >>] } \cup
    { [ok |-> TRUE, found |-> Block(1, len, cased, "none")] :
        len \in {0, 2, MaxPageBlock}, cased \in Casings }

\* What axios.post + extractContactsFromText give for one query (organic
\* results and knowledge graph together): the request throws, or the texts
\* hold no name, names the team pages hold too, or names they do not hold.
SearchResponses ==
    { [ok |-> FALSE, found |-> << >>],
      [ok |-> TRUE,  found |-> << >>],
      [ok |-> TRUE,  found |-> Block(1, 1, "Title", "google_search")],
      [ok |-> TRUE,  found |-> Block(1, MaxSearchBlock, "UPPER", "google_search")],
      [ok |-> TRUE,  found |-> Block(MaxPageBlock + 1, MaxSearchBlock, "Title",
                                     "google_search")],
      [ok |-> TRUE,  found |-> Block(MaxPageBlock + MaxSearchBlock + 1,
                                     MaxSearchBlock, "Title", "google_search")] }

\* self.findIndex(c => c.fullName.toLowerCase() === name.toLowerCase())
FindIndex(self, name) ==
    CHOOSE i \in DOMAIN self :
        /\ ToLowerCase(self[i].fullName) = ToLowerCase(name)
        /\ \A j \in 1..(i - 1) :
              ToLowerCase(self[j].fullName) # ToLowerCase(name)

\* contacts.filter((contact, index, self) => index === self.findIndex(...)),
\* evaluated on the first n elements.
RECURSIVE FilterFirst(_, _)
FilterFirst(self, n) ==
    IF n = 0 THEN << >>
    ELSE LET rest == FilterFirst(self, n - 1)
         IN  IF n = FindIndex(self, self[n].fullName)
             THEN Append(rest, self[n])
             ELSE rest

\* uniqueContacts.map(contact => ({...contact, source: 'team_page'}))
WithSource(cs, source) ==
    [ i \in DOMAIN cs |-> [cs[i] EXCEPT !.source = source] ]

\* The value scrapeTeamPage returns for its local array `contacts`.
ScrapeTeamPageReturn(cs) ==
    Slice(WithSource(FilterFirst(cs, Len(cs)), "team_page"), TeamLimit)

\* deduplicateContacts of googleSearch.ts: the loop over `contacts` with the
\* Set `seen`, from index i on.
RECURSIVE DeduplicateFrom(_, _, _, _)
DeduplicateFrom(cs, i, seen, unique) ==
    IF i > Len(cs) THEN unique
    ELSE LET key == ToLowerCase(cs[i].fullName)
         IN  IF key \notin seen
             THEN DeduplicateFrom(cs, i + 1, seen \cup {key}, Append(unique, cs[i]))
             ELSE DeduplicateFrom(cs, i + 1, seen, unique)

deduplicateContacts(cs) == DeduplicateFrom(cs, 1, {}, << >>)

\* Mutant: the contacts are limited without being deduplicated.
SearchReturn_NoDedup(cs) == Slice(cs, SearchLimit)

\* Mutant: the limit of five is not applied.
SearchReturn_NoLimit(cs) == deduplicateContacts(cs)

\* The value searchForDecisionMakers returns for its local array `contacts`.
SearchReturn(cs) == Slice(deduplicateContacts(cs), SearchLimit)

\* One of the two loops of findAllContacts over allContacts: contacts of
\* `source` whose lower-cased name is not in seenNames are added.
RECURSIVE AddBySource(_, _, _, _, _)
AddBySource(all, i, source, seenNames, uniqueContacts) ==
    IF i > Len(all)
    THEN [seenNames |-> seenNames, uniqueContacts |-> uniqueContacts]
    ELSE LET nameLower == ToLowerCase(all[i].fullName)
         IN  IF all[i].source = source /\ nameLower \notin seenNames
             THEN AddBySource(all, i + 1, source, seenNames \cup {nameLower},
                              Append(uniqueContacts, all[i]))
             ELSE AddBySource(all, i + 1, source, seenNames, uniqueContacts)

\* Mutant: the Google contacts are added first, the team page ones second.
MergeContacts_SearchFirst(all) ==
    LET first  == AddBySource(all, 1, "google_search", {}, << >>)
        second == AddBySource(all, 1, "team_page",
                              first.seenNames, first.uniqueContacts)
    IN  Slice(second.uniqueContacts, MaxContacts)

\* Step 3 of findAllContacts and its return value.
MergeContacts(all) ==
    LET first  == AddBySource(all, 1, "team_page", {}, << >>)
        second == AddBySource(all, 1, "google_search",
                              first.seenNames, first.uniqueContacts)
    IN  Slice(second.uniqueContacts, MaxContacts)

\* ------------------------------------------------------------------ Init

\* findAllContacts is about to be called.
DiscoveryInit ==
    /\ pc = "start"
    /\ websiteUrl \in {"null", "string", "nonString"}
    /\ apiKey \in BOOLEAN
    /\ pathIdx = 1
    /\ contacts = << >>
    /\ teamPageContacts = << >>
    /\ queryIdx = 1
    /\ gContacts = << >>
    /\ googleContacts = << >>
    /\ allContacts = << >>
    /\ result = << >>
    /\ inflight = {}
    /\ nPageReq = 0
    /\ nSearchReq = 0
    /\ pageFails = 0
    /\ searchFails = 0

\* findAllContacts is not called.
DiscoveryIdle ==
    /\ pc = "idle"
    /\ websiteUrl = "null"
    /\ apiKey = FALSE
    /\ pathIdx = 1
    /\ contacts = << >>
    /\ teamPageContacts = << >>
    /\ queryIdx = 1
    /\ gContacts = << >>
    /\ googleContacts = << >>
    /\ allContacts = << >>
    /\ result = << >>
    /\ inflight = {}
    /\ nPageReq = 0
    /\ nSearchReq = 0
    /\ pageFails = 0
    /\ searchFails = 0

NoProbe == [kind |-> "none", credits |-> [type |-> "undefined", value |-> 0]]
NoResult == [returned |-> FALSE, contacts |-> << >>, creditsExhausted |-> FALSE]

\* scrapeTeamPagesWithFirecrawl is about to be called (FirecrawlStart), or
\* is not called (FirecrawlIdle).
FirecrawlAt(at) ==
    /\ fcPc = at
    /\ fcProbe = NoProbe
    /\ fcPathIdx = 1
    /\ fcContacts = << >>
    /\ fcResult = NoResult
    /\ fcLog = << >>
    /\ fcInflight = {}

FirecrawlStart == FirecrawlAt("start")
FirecrawlIdle == FirecrawlAt("idle")

\* `const validFirstNames = new Set(firstNames)`: the names of
\* firstNames.json that the texts below can spell.
FirstNames == { <<"J", "o">> }

\* isValidName is not called.
NameIdle ==
    /\ validFirstNames = FirstNames
    /\ nameTokens = << >>
    /\ text = << >>
    /\ nameResult = [called |-> FALSE, value |-> FALSE]

\* What parseFullName returns: null (ok is FALSE), or the three name fields.
NullName == [ok |-> FALSE, fullName |-> << >>, firstName |-> << >>,
             lastName |-> << >>]

\* parseFullName is not called.
ParseIdle ==
    /\ candidate = << >>
    /\ parsed = [by |-> "none", name |-> NullName]

NoDomainParts ==
    [lead |-> << >>, protocol |-> << >>, www |-> << >>, host |-> << >>,
     path |-> << >>, trail |-> << >>]

\* extractDomain has not been called.
NotNormalized ==
    [called |-> FALSE, once |-> << >>, twice |-> << >>, emails |-> << >>]

\* generateEmails is not called.
EmailIdle ==
    /\ emailArgs = [firstName |-> << >>, lastName |-> << >>, domain |-> << >>]
    /\ domainParts = NoDomainParts
    /\ emailResult = [called |-> FALSE, emails |-> << >>]
    /\ normalized = NotNormalized

\* The extractors are not called.
ExtractIdle ==
    /\ extractor = "none"
    /\ texts = [a |-> << >>, b |-> << >>]
    /\ extractions = << >>
    /\ patternLastIndex = [p \in 1..NumMarkdownPatterns |-> 0]

\* No lead has found or handled a contact.
NothingHandled ==
    [i \in 1..MaxLeads |->
        [found |-> 0, answered |-> 0, saved |-> 0, threw |-> FALSE]]

\* POST /api/find-contacts is about to be handled ("start"), or is not
\* called ("idle").
BulkAt(at) ==
    /\ bulkPc = at
    /\ leadCount = 0
    /\ leadIdx = 1
    /\ leadContacts = 0
    /\ contactIdx = 1
    /\ bulkInflight = {}
    /\ started = << >>
    /\ handled = NothingHandled
    /\ delayedAfter = {}
    /\ totalContactsFound = 0
    /\ leadsProcessed = 0
    /\ bulkErrors = 0
    /\ bulkResponse = 0

\* POST /api/scrape is about to be handled for the first time ("start"),
\* or is not called ("idle"); the table leads is empty.
ScrapeAt(at) ==
    /\ scrapePc = at
    /\ leadsTable = << >>
    /\ runNo = 0
    /\ placeCount = 0
    /\ placeIdx = 1
    /\ placeId = "null"
    /\ existingLead = 0
    /\ insertedCount = 0
    /\ updatedCount = 0
    /\ callFailed = FALSE

\* The two requests of the market route that may overlap.
Requests == { 1, 2 }

\* Both market requests are about to be handled ("start"), or none is made
\* ("idle"); the table contacts is empty.
MarketAt(at) ==
    /\ mPc = [r \in Requests |-> at]
    /\ mLeadIdx = [r \in Requests |-> 1]
    /\ mCount = [r \in Requests |-> 0]
    /\ mContacts = [r \in Requests |-> 0]
    /\ mContactIdx = [r \in Requests |-> 1]
    /\ contactRows = [l \in 1..MaxMarketLeads |-> [r \in Requests |-> 0]]
    /\ mDiscovered = {}
    /\ mStartedAfter = [r \in Requests |-> {}]

\* The quota before getRemainingCredits has returned.
NullQuota == [type |-> "null", value |-> 0]

\* No row has been inserted.
NoRow == [email |-> 0, email_status |-> "none"]

\* The validating POST /api/find-contacts is about to be handled ("start"),
\* or is not called ("idle").
ValidateAt(at) ==
    /\ zPc = at
    /\ quotaRemaining = NullQuota
    /\ quotaAtStart = NullQuota
    /\ zLeadCount = 0
    /\ zLeadIdx = 1
    /\ zContacts = 0
    /\ zContactIdx = 1
    /\ zVariations = 1
    /\ zVariationIdx = 1
    /\ validEmail = 0
    /\ emailStatus = "unknown"
    /\ zAnswer = "none"
    /\ zRow = NoRow
    /\ zStarted = 0
    /\ totalEmailsValidated = 0

\* POST /api/scrape is about to be handled for the first time ("start"),
\* or is not called ("idle"); no job row exists.
JobAt(at) ==
    /\ jobPc = at
    /\ jobNo = 1
    /\ jobStatus = [j \in 1..MaxRuns |-> "none"]
    /\ jobHistory = [j \in 1..MaxRuns |-> << >>]
    /\ jobResponse = [j \in 1..MaxRuns |-> 0]

\* A row of the table leads with nothing in its nullable columns.
EmptyRow ==
    [id |-> "id", job_id |-> "job", place_id |-> "p1",
     business_name |-> "old", address |-> "null", phone |-> "null",
     website |-> "null", email |-> "null", email_found_at |-> "null",
     category |-> "null", rating |-> "null", review_count |-> "null",
     last_updated |-> "null"]

\* A place without any of its optional fields.
EmptyPlace ==
    [title |-> "undefined", address |-> "undefined", phones0 |-> "undefined",
     phoneUnformatted |-> "undefined", phone |-> "undefined",
     website |-> "undefined", categories0 |-> "undefined",
     categoryName |-> "undefined", emails0 |-> "undefined",
     totalScore |-> "undefined", reviewsCount |-> "undefined"]

\* No existing lead is updated.
UpdateIdle ==
    /\ existingRow = EmptyRow
    /\ place = EmptyPlace
    /\ rowAfter = [done |-> FALSE, row |-> EmptyRow]

\* The pure functions and routes next to the pipeline are not called, but
\* for the one named.
ExtraIdleBut(called) ==
    /\ called = "parseFullName" \/ ParseIdle
    /\ called = "generateEmails" \/ EmailIdle
    /\ called = "extractContacts" \/ ExtractIdle
    /\ called = "findContactsRoute" \/ BulkAt("idle")
    /\ called = "scrapeRoute" \/ ScrapeAt("idle")
    /\ called = "marketRoute" \/ MarketAt("idle")
    /\ called = "validatingRoute" \/ ValidateAt("idle")
    /\ called = "scrapeJob" \/ JobAt("idle")
    /\ called = "updateLead" \/ UpdateIdle

ExtraIdle == ExtraIdleBut("none")

Init == DiscoveryInit /\ FirecrawlIdle /\ NameIdle /\ ExtraIdle

\* ------------------------------------------------------- scrapeTeamPage

teamVars == << pathIdx, contacts, teamPageContacts, nPageReq, pageFails >>
searchVars == << queryIdx, gContacts, googleContacts, nSearchReq, searchFails >>

\* findAllContacts, `if (websiteUrl)`: a null url skips the page pass.
SkipTeamPage ==
    /\ UNCHANGED << fvars, nvars, xvars >>
    /\ pc = "start"
    /\ websiteUrl = "null"
    /\ pc' = "search"
    /\ UNCHANGED << websiteUrl, apiKey, teamVars, searchVars, allContacts,
                    result, inflight >>

\* scrapeTeamPage is entered: websiteUrl.trim() and the base url.  A value
\* that is not a string has no trim method, and the call throws.
EnterTeamPage ==
    /\ UNCHANGED << fvars, nvars, xvars >>
    /\ pc = "start"
    /\ websiteUrl # "null"
    /\ pc' = IF websiteUrl = "string" THEN "team_loop" ELSE "team_thrown"
    /\ UNCHANGED << websiteUrl, apiKey, teamVars, searchVars, allContacts,
                    result, inflight >>

\* findAllContacts, the catch around scrapeTeamPage: nothing is pushed.
TeamPageCatch ==
    /\ UNCHANGED << fvars, nvars, xvars >>
    /\ pc = "team_thrown"
    /\ pc' = "search"
    /\ UNCHANGED << websiteUrl, apiKey, teamVars, searchVars, allContacts,
                    result, inflight >>

\* `await axios.get(url, ...)` for teamPaths[pathIdx] is issued.
TeamRequest ==
    /\ UNCHANGED << fvars, nvars, xvars >>
    /\ pc = "team_loop"
    /\ inflight' = inflight \cup { <<"page", pathIdx>> }
    /\ nPageReq' = nPageReq + 1
    /\ pc' = "team_wait"
    /\ UNCHANGED << websiteUrl, apiKey, pathIdx, contacts, teamPageContacts,
                    pageFails, searchVars, allContacts, result >>

\* The loop is left (break, or the last path is done): dedup, tag, slice,
\* return; findAllContacts pushes the returned contacts.
TeamReturn(cs) ==
    /\ teamPageContacts' = ScrapeTeamPageReturn(cs)
    /\ allContacts' = allContacts \o ScrapeTeamPageReturn(cs)
    /\ pc' = "search"
    /\ UNCHANGED pathIdx

\* The next iteration of `for (const path of teamPaths)`, if there is one.
TeamAdvance(cs) ==
    IF pathIdx < NumTeamPaths
    THEN /\ pathIdx' = pathIdx + 1
         /\ pc' = "team_loop"
         /\ UNCHANGED << teamPageContacts, allContacts >>
    ELSE TeamReturn(cs)

\* The request is answered with a page: extractContacts, push, and either
\* the break at five contacts or the delay.
TeamResponseOk ==
    /\ UNCHANGED << fvars, nvars, xvars >>
    /\ pc = "team_wait"
    /\ \E resp \in PageResponses :
          /\ resp.ok
          /\ contacts' = contacts \o resp.found
          /\ IF Len(resp.found) > 0 /\ Len(contacts \o resp.found) >= TeamBreakAt
             THEN TeamReturn(contacts \o resp.found)
             ELSE /\ pc' = "team_delay"
                  /\ UNCHANGED << pathIdx, teamPageContacts, allContacts >>
    /\ inflight' = inflight \ { <<"page", pathIdx>> }
    /\ UNCHANGED << websiteUrl, apiKey, nPageReq, pageFails, searchVars, result >>

\* Mutant: the path loop has no catch; the error leaves scrapeTeamPage.
TeamPathCatch_Propagate ==
    /\ pc' = "team_thrown"
    /\ UNCHANGED << pathIdx, contacts, teamPageContacts, allContacts >>

\* The catch of the path loop: log and go on with the next path.
TeamPathCatch ==
    /\ TeamAdvance(contacts)
    /\ UNCHANGED contacts

\* The request throws (network error, timeout, non-2xx status).
TeamResponseError ==
    /\ UNCHANGED << fvars, nvars, xvars >>
    /\ pc = "team_wait"
    /\ inflight' = inflight \ { <<"page", pathIdx>> }
    /\ pageFails' = pageFails + 1
    /\ TeamPathCatch
    /\ UNCHANGED << websiteUrl, apiKey, nPageReq, searchVars, result >>

\* `await new Promise(resolve => setTimeout(resolve, 2000))` is over.
TeamDelay ==
    /\ UNCHANGED << fvars, nvars, xvars >>
    /\ pc = "team_delay"
    /\ TeamAdvance(contacts)
    /\ UNCHANGED << websiteUrl, apiKey, contacts, nPageReq, pageFails,
                    searchVars, result, inflight >>

\* ---------------------------------------------- searchForDecisionMakers

\* findAllContacts, after step 2: merge, dedup, slice and return.
Finish(gs) ==
    /\ googleContacts' = gs
    /\ allContacts' = allContacts \o gs
    /\ result' = MergeContacts(allContacts \o gs)
    /\ pc' = "done"

\* `if (!apiKey) return []`: no request is made.
SearchNoKey ==
    /\ UNCHANGED << fvars, nvars, xvars >>
    /\ pc = "search"
    /\ ~apiKey
    /\ Finish(<< >>)
    /\ UNCHANGED << websiteUrl, apiKey, teamVars, queryIdx, gContacts,
                    nSearchReq, searchFails, inflight >>

\* Mutant: the search pass is started without awaiting the page pass.
SearchRequest_Concurrent ==
    /\ UNCHANGED << fvars, nvars, xvars >>
    /\ pc \in {"search", "search_loop", "team_wait"}
    /\ apiKey
    /\ inflight' = inflight \cup { <<"search", queryIdx>> }
    /\ nSearchReq' = nSearchReq + 1
    /\ pc' = "search_wait"
    /\ UNCHANGED << websiteUrl, apiKey, teamVars, queryIdx, gContacts,
                    googleContacts, searchFails, allContacts, result >>

\* `await axios.post(SERPER_API_URL, ...)` for queries[queryIdx] is issued.
SearchRequest ==
    /\ UNCHANGED << fvars, nvars, xvars >>
    /\ pc \in {"search", "search_loop"}
    /\ apiKey
    /\ inflight' = inflight \cup { <<"search", queryIdx>> }
    /\ nSearchReq' = nSearchReq + 1
    /\ pc' = "search_wait"
    /\ UNCHANGED << websiteUrl, apiKey, teamVars, queryIdx, gContacts,
                    googleContacts, searchFails, allContacts, result >>

\* The next iteration of `for (const query of queries)`, or the return.
SearchAdvance(cs) ==
    IF queryIdx < NumQueries
    THEN /\ queryIdx' = queryIdx + 1
         /\ pc' = "search_loop"
         /\ UNCHANGED << googleContacts, allContacts, result >>
    ELSE /\ Finish(SearchReturn(cs))
         /\ UNCHANGED queryIdx

\* The request is answered: the contacts of every text are pushed.
SearchResponseOk ==
    /\ UNCHANGED << fvars, nvars, xvars >>
    /\ pc = "search_wait"
    /\ \E resp \in SearchResponses :
          /\ resp.ok
          /\ gContacts' = gContacts \o resp.found
    /\ inflight' = inflight \ { <<"search", queryIdx>> }
    /\ pc' = "search_delay"
    /\ UNCHANGED << websiteUrl, apiKey, teamVars, queryIdx, googleContacts,
                    nSearchReq, searchFails, allContacts, result >>

\* Mutant: a failed query ends the search pass.
SearchQueryCatch_GiveUp ==
    /\ Finish(SearchReturn(gContacts))
    /\ UNCHANGED << queryIdx, gContacts >>

\* The catch of the query loop: log and go on with the next query.
SearchQueryCatch ==
    /\ SearchAdvance(gContacts)
    /\ UNCHANGED gContacts

\* The request throws.
SearchResponseError ==
    /\ UNCHANGED << fvars, nvars, xvars >>
    /\ pc = "search_wait"
    /\ inflight' = inflight \ { <<"search", queryIdx>> }
    /\ searchFails' = searchFails + 1
    /\ SearchQueryCatch
    /\ UNCHANGED << websiteUrl, apiKey, teamVars, nSearchReq >>

\* `await new Promise(resolve => setTimeout(resolve, 1000))` is over.
SearchDelay ==
    /\ UNCHANGED << fvars, nvars, xvars >>
    /\ pc = "search_delay"
    /\ SearchAdvance(gContacts)
    /\ UNCHANGED << websiteUrl, apiKey, teamVars, gContacts, nSearchReq,
                    searchFails, inflight >>

\* ----------------------------------------- scrapeTeamPagesWithFirecrawl

\* What `account.credits` can be after `await response.json()`.
CreditValues ==
    { [type |-> "undefined", value |-> 0],
      [type |-> "null", value |-> 0],
      [type |-> "string", value |-> 0] } \cup
    { [type |-> "number", value |-> v] : v \in {0, 5, MaxCredits} }

\* What the account request can give: fetch throws, a status that is not
\* 2xx, a body json() throws on, or an account object.
ProbeOutcomes ==
    { [kind |-> k, credits |-> [type |-> "undefined", value |-> 0]] :
        k \in {"fetchThrows", "notOk", "jsonThrows"} } \cup
    { [kind |-> "ok", credits |-> c] : c \in CreditValues }

\* Mutant: `!account.credits` instead of `account.credits === 0`.
CreditsExhausted_Falsy(probe) ==
    /\ probe.kind = "ok"
    /\ \/ probe.credits.type \in {"undefined", "null"}
       \/ probe.credits.type = "number" /\ probe.credits.value = 0

\* `response.ok` and then `account.credits === 0`, inside the try.
CreditsExhausted(probe) ==
    /\ probe.kind = "ok"
    /\ probe.credits.type = "number"
    /\ probe.credits.value = 0

\* A ScrapedContact list: names first .. first+len-1 in one casing.
FcBlock(first, len, cased) ==
    [ i \in 1..len |->
        [ fullName |-> [key |-> first + i - 1, cased |-> cased],
          title    |-> TitleOf(cased) ] ]

\* What extractContactsFromMarkdown finds in the markdown of one page.
FcFound ==
    { << >>,
      FcBlock(1, 1, "Title"),
      FcBlock(1, 2, "Title") \o FcBlock(1, 1, "UPPER"),
      FcBlock(1, MaxFcBlock, "UPPER") }

RateLimitText == "Rate limit exceeded"
TimeoutText == "timed out"

\* What one `await firecrawl.scrape(url, ...)` can give: a result without
\* markdown, a result with markdown, or an error whose message (if it has
\* one) includes some of the two texts the catch looks for.
FcResponses ==
    { [kind |-> "result", markdown |-> FALSE, found |-> << >>,
       hasMessage |-> FALSE, includes |-> {}] } \cup
    { [kind |-> "result", markdown |-> TRUE, found |-> f,
       hasMessage |-> FALSE, includes |-> {}] : f \in FcFound } \cup
    { [kind |-> "error", markdown |-> FALSE, found |-> << >>,
       hasMessage |-> TRUE, includes |-> inc] :
         inc \in SUBSET {RateLimitText, TimeoutText} } \cup
    { [kind |-> "error", markdown |-> FALSE, found |-> << >>,
       hasMessage |-> FALSE, includes |-> {}] }

\* deduplicateContacts of the Firecrawl scraper: first occurrence per lower-cased
\* name, then slice(0, 10).
FcDeduplicateContacts(cs) == Slice(DeduplicateFrom(cs, 1, {}, << >>), FcLimit)

\* Mutant: the break of scrapeTeamPage, at five contacts.
BreakOnContacts_AtFive(pageContacts) == Len(pageContacts) >= 5

\* `if (pageContacts.length > 0) { ...; break }`
BreakOnContacts(pageContacts) == Len(pageContacts) > 0

\* Mutant: every error ends the loop.
BreakOnError_AnyError(error) == TRUE

\* `if (error.message && error.message.includes('Rate limit exceeded')) break`
BreakOnError(error) == error.hasMessage /\ RateLimitText \in error.includes

\* `const response = await fetch('https://api.firecrawl.dev/v0/account')`
FcProbeRequest ==
    /\ UNCHANGED << dvars, nvars, xvars >>
    /\ fcPc = "start"
    /\ fcPc' = "probe_wait"
    /\ UNCHANGED << fcProbe, fcPathIdx, fcContacts, fcResult, fcLog, fcInflight >>

\* The account request is answered or fails: the early return on zero
\* credits, or on to the path loop.
FcProbeResponse ==
    /\ UNCHANGED << dvars, nvars, xvars >>
    /\ fcPc = "probe_wait"
    /\ \E probe \in ProbeOutcomes :
          /\ fcProbe' = probe
          /\ IF CreditsExhausted(probe)
             THEN /\ fcResult' = [returned |-> TRUE, contacts |-> << >>,
                                  creditsExhausted |-> TRUE]
                  /\ fcPc' = "done"
             ELSE /\ fcPc' = "loop"
                  /\ UNCHANGED fcResult
    /\ UNCHANGED << fcPathIdx, fcContacts, fcLog, fcInflight >>

\* `const result = await firecrawl.scrape(url, ...)` for
\* TEAM_PATHS[fcPathIdx] is issued.
FcRequest ==
    /\ UNCHANGED << dvars, nvars, xvars >>
    /\ fcPc = "loop"
    /\ fcInflight' = fcInflight \cup {fcPathIdx}
    /\ fcPc' = "wait"
    /\ UNCHANGED << fcProbe, fcPathIdx, fcContacts, fcResult, fcLog >>

\* The loop is left: the return of line 119.
FcReturn(cs) ==
    /\ fcResult' = [returned |-> TRUE, contacts |-> FcDeduplicateContacts(cs),
                    creditsExhausted |-> FALSE]
    /\ fcPc' = "done"
    /\ UNCHANGED fcPathIdx

\* The call is answered with a result.
FcResponseResult ==
    /\ UNCHANGED << dvars, nvars, xvars >>
    /\ fcPc = "wait"
    /\ \E resp \in FcResponses :
          /\ resp.kind = "result"
          /\ fcLog' = Append(fcLog, resp)
          /\ IF resp.markdown /\ BreakOnContacts(resp.found)
             THEN /\ fcContacts' = fcContacts \o resp.found
                  /\ FcReturn(fcContacts \o resp.found)
             ELSE /\ fcPc' = "delay"
                  /\ UNCHANGED << fcContacts, fcResult, fcPathIdx >>
    /\ fcInflight' = fcInflight \ {fcPathIdx}
    /\ UNCHANGED fcProbe

\* The call throws: the catch of the path loop.
FcResponseError ==
    /\ UNCHANGED << dvars, nvars, xvars >>
    /\ fcPc = "wait"
    /\ \E resp \in FcResponses :
          /\ resp.kind = "error"
          /\ fcLog' = Append(fcLog, resp)
          /\ IF BreakOnError(resp)
             THEN FcReturn(fcContacts)
             ELSE /\ fcPc' = "delay"
                  /\ UNCHANGED << fcResult, fcPathIdx >>
    /\ fcInflight' = fcInflight \ {fcPathIdx}
    /\ UNCHANGED << fcProbe, fcContacts >>

\* Mutant: after the delay the same path is tried again.
FcDelay_Retry ==
    /\ UNCHANGED << dvars, nvars, xvars >>
    /\ fcPc = "delay"
    /\ fcPc' = "loop"
    /\ UNCHANGED << fcProbe, fcPathIdx, fcContacts, fcResult, fcLog,
                    fcInflight >>

\* `await new Promise(resolve => setTimeout(resolve, 6000))` is over: the
\* next path, or the end of the loop.
FcDelay ==
    /\ UNCHANGED << dvars, nvars, xvars >>
    /\ fcPc = "delay"
    /\ IF fcPathIdx < NumFcPaths
       THEN /\ fcPathIdx' = fcPathIdx + 1
            /\ fcPc' = "loop"
            /\ UNCHANGED fcResult
       ELSE FcReturn(fcContacts)
    /\ UNCHANGED << fcProbe, fcContacts, fcLog, fcInflight >>

FirecrawlNext ==
    \/ FcProbeRequest
    \/ FcProbeResponse
    \/ FcRequest
    \/ FcResponseResult
    \/ FcResponseError
    \/ FcDelay

InitFirecrawl == DiscoveryIdle /\ FirecrawlStart /\ NameIdle /\ ExtraIdle

SpecFirecrawl == InitFirecrawl /\ [][FirecrawlNext]_vars

\* Every awaited call settles (the account request and firecrawl.scrape
\* are answered or fail, a timer fires) and the function goes on after it.
SpecFirecrawlFair == SpecFirecrawl /\ WF_vars(FirecrawlNext)

\* ---------------------------------------------------------- isValidName

\* The characters /\s/ matches, among those the texts are written with.
IsWhitespace(ch) == ch \in {" ", "\t"}

\* The characters /[A-Z]/ matches, among those the texts are written with:
\* the capital letters of ASCII, and no capital letter outside it (the
\* character "U+00C9", a capital E with an acute accent, is not matched).
IsUpperCase(ch) == ch \in {"J", "O", "X", "D", "F"}

\* String.prototype.trim: whitespace is dropped at both ends.
RECURSIVE TrimStart(_)
TrimStart(s) ==
    IF s # << >> /\ IsWhitespace(Head(s)) THEN TrimStart(Tail(s)) ELSE s

RECURSIVE TrimEnd(_)
TrimEnd(s) ==
    IF s # << >> /\ IsWhitespace(s[Len(s)])
    THEN TrimEnd(SubSeq(s, 1, Len(s) - 1))
    ELSE s

Trim(s) == TrimEnd(TrimStart(s))

\* String.prototype.split(/\s+/) from character i on: every run of
\* whitespace ends the piece before it; the empty string gives one empty
\* piece.
RECURSIVE SplitFrom(_, _, _, _)
SplitFrom(s, i, cur, acc) ==
    IF i > Len(s) THEN Append(acc, cur)
    ELSE IF IsWhitespace(s[i])
         THEN IF i > 1 /\ IsWhitespace(s[i - 1])
              THEN SplitFrom(s, i + 1, cur, acc)
              ELSE SplitFrom(s, i + 1, << >>, Append(acc, cur))
         ELSE SplitFrom(s, i + 1, Append(cur, s[i]), acc)

Split(s) == SplitFrom(s, 1, << >>, << >>)

\* Mutant: the upper limit of four words is not checked.
WrongWordCount_NoUpperLimit(words) == Len(words) < 2

\* `words.length < 2 || words.length > 4`
WrongWordCount(words) == Len(words) < 2 \/ Len(words) > 4

\* String.prototype.toLowerCase, on a character and on a word.
LowerChar(ch) ==
    CASE ch = "J" -> "j" [] ch = "O" -> "o" [] ch = "X" -> "x"
      [] ch = "D" -> "d" [] ch = "F" -> "f" [] ch = "U+00C9" -> "U+00E9"
      [] OTHER -> ch

LowerWord(w) == [ i \in DOMAIN w |-> LowerChar(w[i]) ]

\* Mutant: the first name is looked up ignoring case.
UnknownFirstName_IgnoreCase(words) ==
    LowerWord(words[1]) \notin { LowerWord(n) : n \in validFirstNames }

\* `!validFirstNames.has(firstName)`
UnknownFirstName(words) == words[1] \notin validFirstNames

\* isValidName(text): the four checks in the order of the code.
isValidName(t) ==
    LET words == Split(Trim(t))
    IN  IF WrongWordCount(words) THEN FALSE
        ELSE IF UnknownFirstName(words) THEN FALSE
        ELSE IF ~(\A i \in DOMAIN words :
                    words[i] # << >> /\ IsUpperCase(words[i][1])) THEN FALSE
        ELSE IF Len(words[Len(words)]) < 2 THEN FALSE
        ELSE TRUE

\* The words the texts are written from: a known first name, the same
\* letters in lower case and in capitals, a capitalised word that is no
\* first name, a single capital, a lower-case particle and a word that
\* starts with a capital letter outside ASCII.
Words ==
    { <<"J", "o">>, <<"j", "o">>, <<"J", "O">>, <<"X", "y">>, <<"D">>,
      <<"d", "e">>, <<"U+00C9", "a">> }

\* The whitespace put between two words, and before and after the text.
Separators == { <<" ">>, <<" ", "\t">> }
Pads == { << >>, <<" ">> }

\* The words joined by sep.
RECURSIVE Join(_, _)
Join(ws, sep) ==
    IF ws = << >> THEN << >>
    ELSE IF Len(ws) = 1 THEN ws[1]
    ELSE ws[1] \o sep \o Join(Tail(ws), sep)

\* A text of at most MaxWords words is about to be validated.
NameStart ==
    /\ validFirstNames = FirstNames
    /\ nameTokens \in UNION { [1..n -> Words] : n \in 0..MaxWords }
    /\ \E sep \in Separators, lead \in Pads, trail \in Pads :
          text = lead \o Join(nameTokens, sep) \o trail
    /\ nameResult = [called |-> FALSE, value |-> FALSE]

\* One call of isValidName(text).
CallIsValidName ==
    /\ UNCHANGED << dvars, fvars, xvars >>
    /\ ~nameResult.called
    /\ nameResult' = [called |-> TRUE, value |-> isValidName(text)]
    /\ UNCHANGED << validFirstNames, nameTokens, text >>

NameNext == CallIsValidName

InitName == DiscoveryIdle /\ FirecrawlIdle /\ NameStart /\ ExtraIdle

SpecName == InitName /\ [][NameNext]_vars

\* -------------------------------------------------------- parseFullName

\* `['and', 'the', 'of', 'at', 'for', 'by']`
StopWords ==
    { <<"a", "n", "d">>, <<"t", "h", "e">>, <<"o", "f">>, <<"a", "t">>,
      <<"f", "o", "r">>, <<"b", "y">> }

\* parseFullName of contactDiscovery.ts, which the page scraper calls on a
\* match: the trimmed text, its first word and its last word; null for
\* fewer than two words.
parseFullNameOfPage(fullName) ==
    LET parts == Split(Trim(fullName))
    IN  IF Len(parts) < 2 THEN NullName
        ELSE [ok |-> TRUE, fullName |-> Trim(fullName),
              firstName |-> parts[1], lastName |-> parts[Len(parts)]]

\* `parts.filter(part => !stopWords.includes(part.toLowerCase()))`
FilterStopWords(parts) ==
    SelectSeq(parts, LAMBDA part : LowerWord(part) \notin StopWords)

\* parseFullName of googleSearch.ts, which the search extractor calls on a
\* match: stop words are dropped, the rest is joined by single spaces and
\* must pass isValidName.
parseFullNameOfSearch(fullName) ==
    LET parts == Split(Trim(fullName))
        filteredParts == FilterStopWords(parts)
        reconstructedName == Join(filteredParts, <<" ">>)
    IN  IF Len(parts) < 2 THEN NullName
        ELSE IF Len(filteredParts) < 2 THEN NullName
        ELSE IF ~isValidName(reconstructedName) THEN NullName
        ELSE [ok |-> TRUE, fullName |-> reconstructedName,
              firstName |-> filteredParts[1],
              lastName |-> filteredParts[Len(filteredParts)]]

\* The words the patterns can match (a capital or, under flag i, any letter,
\* then one lower-case letter or more): a first name, the same in lower
\* case, another capitalised word, and a stop word in both casings.
MatchWords ==
    { <<"J", "o">>, <<"j", "o">>, <<"X", "y">>, <<"O", "f">>, <<"o", "f">> }

\* The name part of a pattern match: two words or more, one space between.
Candidates ==
    { Join(ws, <<" ">>) :
        ws \in UNION { [1..n -> MatchWords] : n \in 2..MaxMatchWords } }

\* A pattern has matched a name and parseFullName is about to be called.
ParseStart ==
    /\ candidate \in Candidates
    /\ parsed = [by |-> "none", name |-> NullName]

\* extractContacts (page scraper) hands its match to its parseFullName; its
\* patterns match names of two or three words.
ParseOfPage ==
    /\ UNCHANGED othersOfParse
    /\ parsed.by = "none"
    /\ Len(Split(candidate)) <= 3
    /\ parsed' = [by |-> "team_page", name |-> parseFullNameOfPage(candidate)]
    /\ UNCHANGED candidate

\* extractContactsFromText (search) hands its match to its parseFullName.
ParseOfSearch ==
    /\ UNCHANGED othersOfParse
    /\ parsed.by = "none"
    /\ parsed' = [by |-> "google_search",
                  name |-> parseFullNameOfSearch(candidate)]
    /\ UNCHANGED candidate

ParseNext == ParseOfPage \/ ParseOfSearch

InitParse ==
    /\ DiscoveryIdle /\ FirecrawlIdle /\ NameIdle
    /\ ExtraIdleBut("parseFullName") /\ ParseStart

SpecParse == InitParse /\ [][ParseNext]_vars

\* -------------------------------------------------------- generateEmails

\* s starts with the characters of prefix.
StartsWith(s, prefix) ==
    Len(s) >= Len(prefix) /\ SubSeq(s, 1, Len(prefix)) = prefix

\* s without its first n characters.
Drop(s, n) == SubSeq(s, n + 1, Len(s))

Http == <<"h", "t", "t", "p", ":", "/", "/">>
Https == <<"h", "t", "t", "p", "s", ":", "/", "/">>
Www == <<"w", "w", "w", ".">>

\* `.replace(/^https?:\/\//, '')`
StripProtocol(s) ==
    IF StartsWith(s, Https) THEN Drop(s, Len(Https))
    ELSE IF StartsWith(s, Http) THEN Drop(s, Len(Http))
    ELSE s

\* `.replace(/^www\./, '')`
StripWww(s) == IF StartsWith(s, Www) THEN Drop(s, Len(Www)) ELSE s

\* `.replace(/\/.*$/, '')`: everything from the first slash on is dropped.
StripPath(s) ==
    IF \E i \in DOMAIN s : s[i] = "/"
    THEN SubSeq(s, 1, (CHOOSE i \in DOMAIN s :
                          /\ s[i] = "/"
                          /\ \A j \in 1..(i - 1) : s[j] # "/") - 1)
    ELSE s

\* `cleanDomain`
CleanDomain(domain) == Trim(StripPath(StripWww(StripProtocol(domain))))

\* extractDomain: the three replaces in turn, then trim.
extractDomain(url) == Trim(StripPath(StripWww(StripProtocol(url))))

\* `first.charAt(0)`: the first character, or the empty string.
CharAt0(s) == IF s = << >> THEN << >> ELSE << s[1] >>

\* Mutant: the array is returned as it was built.
UniqueInOrder_KeepAll(list) == list

\* `[...new Set(emails)]`: a Set keeps its elements in the order of their
\* first insertion.
UniqueInOrder(list) ==
    LET kept == { i \in DOMAIN list : \A j \in 1..(i - 1) : list[j] # list[i] }
        RECURSIVE From(_)
        From(i) ==
            IF i > Len(list) THEN << >>
            ELSE IF i \in kept THEN << list[i] >> \o From(i + 1)
            ELSE From(i + 1)
    IN  From(1)

\* generateEmails(firstName, lastName, domain)
generateEmails(firstName, lastName, domain) ==
    LET first == LowerWord(firstName)
        last == LowerWord(lastName)
        firstInitial == CharAt0(first)
        lastInitial == CharAt0(last)
        at == <<"@">> \o CleanDomain(domain)
        emails ==
            << first \o at,
               last \o at,
               first \o <<".">> \o last \o at,
               first \o last \o at,
               firstInitial \o last \o at,
               first \o lastInitial \o at,
               firstInitial \o <<".">> \o last \o at,
               first \o <<"_">> \o last \o at >>
    IN  UniqueInOrder(emails)

\* The names the function is called with: the empty string, one letter,
\* and words in several casings.
EmailNames ==
    { << >>, <<"J">>, <<"j", "o">>, <<"J", "o">>, <<"X", "y">> }

\* The parts a domain argument is written from.
Protocols == { << >>, Http, Https }
Hosts == { <<"j", "o", ".", "c", "o">>, <<"J", "o", ".", "c", "o">> }
Paths == { << >>, <<"/">>, <<"/", "a", "/", "b">> }

\* generateEmails is about to be called.
EmailStart ==
    /\ domainParts \in [lead : Pads, protocol : Protocols, www : {<< >>, Www},
                         host : Hosts, path : Paths, trail : Pads]
    /\ emailArgs \in [firstName : EmailNames, lastName : EmailNames,
                       domain : { domainParts.lead \o domainParts.protocol
                                    \o domainParts.www \o domainParts.host
                                    \o domainParts.path \o domainParts.trail }]
    /\ emailResult = [called |-> FALSE, emails |-> << >>]
    /\ normalized = NotNormalized

\* One call of generateEmails.
CallGenerateEmails ==
    /\ UNCHANGED othersOfEmail
    /\ ~emailResult.called
    /\ emailResult' =
          [called |-> TRUE,
           emails |-> generateEmails(emailArgs.firstName, emailArgs.lastName,
                                     emailArgs.domain)]
    /\ UNCHANGED << emailArgs, domainParts, normalized >>

\* The route's way: `extractDomain(lead.website)` and generateEmails with
\* the domain it gave; extractDomain is applied to its own result as well.
CallExtractDomain ==
    /\ UNCHANGED othersOfEmail
    /\ ~normalized.called
    /\ normalized' =
          [called |-> TRUE,
           once   |-> extractDomain(emailArgs.domain),
           twice  |-> extractDomain(extractDomain(emailArgs.domain)),
           emails |-> generateEmails(emailArgs.firstName, emailArgs.lastName,
                                     extractDomain(emailArgs.domain))]
    /\ UNCHANGED << emailArgs, domainParts, emailResult >>

EmailNext == CallGenerateEmails \/ CallExtractDomain

InitEmail ==
    /\ DiscoveryIdle /\ FirecrawlIdle /\ NameIdle
    /\ ExtraIdleBut("generateEmails") /\ EmailStart

SpecEmail == InitEmail /\ [][EmailNext]_vars

\* ----------------- extractContactsFromText, extractContactsFromMarkdown

\* `pattern.source` of the pattern of line 128.
BoldNameDashTitleSource ==
    << "\\", "*", "\\", "*", "(", "[", "A", "-", "Z", "]", "[", "a",
       "-", "z", "]", "+", "(", "?", ":", " ", "[", "A", "-", "Z", "]",
       "[", "a", "-", "z", "]", "+", ")", "{", "1", ",", "3", "}", ")",
       "\\", "*", "\\", "*", "\\", "s", "*", "[", "-", "U+2013",
       "U+2014", "]", "\\", "s", "*", "(", "[", "A", "-", "Z", "]", "[",
       "a", "-", "z", "]", "+", "(", "?", ":", " ", "[", "A", "-", "Z",
       "]", "[", "a", "-", "z", "]", "+", ")", "*", ")" >>

\* `pattern.source` of the pattern of line 131.
NameCommaTitleSource ==
    << "(", "[", "A", "-", "Z", "]", "[", "a", "-", "z", "]", "+", "(",
       "?", ":", " ", "[", "A", "-", "Z", "]", "[", "a", "-", "z", "]",
       "+", ")", "{", "1", ",", "3", "}", ")", ",", "\\", "s", "*", "(",
       "[", "A", "-", "Z", "]", "[", "a", "-", "z", "]", "+", "(", "?",
       ":", " ", "[", "A", "-", "Z", "]", "[", "a", "-", "z", "]", "+",
       ")", "*", ")" >>

\* `pattern.source` of the pattern of line 134.
TitleColonNameSource ==
    << "(", "[", "A", "-", "Z", "]", "[", "a", "-", "z", "]", "+", "(",
       "?", ":", " ", "[", "A", "-", "Z", "]", "[", "a", "-", "z", "]",
       "+", ")", "*", ")", ":", "\\", "s", "*", "(", "[", "A", "-", "Z",
       "]", "[", "a", "-", "z", "]", "+", "(", "?", ":", " ", "[", "A",
       "-", "Z", "]", "[", "a", "-", "z", "]", "+", ")", "{", "1", ",",
       "3", "}", ")" >>

\* `pattern.source` of the pattern of line 137.
FoundedByNameSource ==
    << "f", "o", "u", "n", "d", "e", "d", " ", "b", "y", " ", "(", "[",
       "A", "-", "Z", "]", "[", "a", "-", "z", "]", "+", "(", "?", ":",
       " ", "[", "A", "-", "Z", "]", "[", "a", "-", "z", "]", "+", ")",
       "{", "1", ",", "3", "}", ")" >>

\* `pattern.source` of the pattern of line 140.
NameIsTheTitleSource ==
    << "(", "[", "A", "-", "Z", "]", "[", "a", "-", "z", "]", "+", "(",
       "?", ":", " ", "[", "A", "-", "Z", "]", "[", "a", "-", "z", "]",
       "+", ")", "{", "1", ",", "3", "}", ")", " ", "i", "s", " ", "t",
       "h", "e", " ", "(", "C", "E", "O", "|", "F", "o", "u", "n", "d",
       "e", "r", "|", "C", "o", "-", "F", "o", "u", "n", "d", "e", "r",
       "|", "P", "r", "e", "s", "i", "d", "e", "n", "t", "|", "D", "i",
       "r", "e", "c", "t", "o", "r", "|", "M", "a", "n", "a", "g", "e",
       "r", ")" >>

\* `patterns`, by their sources.
PatternSources ==
    << BoldNameDashTitleSource, NameCommaTitleSource, TitleColonNameSource,
       FoundedByNameSource, NameIsTheTitleSource >>

\* String.prototype.includes
Includes(s, needle) ==
    \E i \in 1..(Len(s) - Len(needle) + 1) :
        SubSeq(s, i, i + Len(needle) - 1) = needle

\* The strings the branches of extractContactsFromMarkdown look for.
FoundedByText == <<"f", "o", "u", "n", "d", "e", "d", " ", "b", "y">>
IsTheText == <<"i", "s", " ", "t", "h", "e">>
CeoColonText == <<"C", "E", "O", ":">>

\* The texts of the capture groups: a valid name, a name whose first word
\* is no first name, a title, and two names joined by "and".
JoXy == <<"J", "o", " ", "X", "y">>
XyJo == <<"X", "y", " ", "J", "o">>
Founder == <<"F", "o", "u", "n", "d", "e", "r">>
JoXyAndJoJo == JoXy \o <<" ", "a", "n", "d", " ">> \o <<"J", "o", " ", "J", "o">>

\* `titles`: the titles of the list that the texts can spell.
Titles == { Founder }

\* A match of pattern number `pattern` with capture groups g1 and g2.
Match(pattern, g1, g2) == [pattern |-> pattern, g1 |-> g1, g2 |-> g2]

\* A stretch of text no pattern matches.
NoMatch == Match(0, << >>, << >>)

\* What a markdown text is made of: matches of the five patterns, among
\* them title-first matches with a one-word title and with a title that
\* reads like a name.
MarkdownMatches ==
    { NoMatch,
      Match(1, JoXy, Founder),
      Match(2, JoXy, Founder),
      Match(2, XyJo, Founder),
      Match(3, Founder, JoXy),
      Match(3, JoXy, XyJo),
      Match(4, JoXy, << >>),
      Match(5, JoXy, Founder) }

\* What a search text is made of: matches of the four patterns.
TextMatches ==
    { NoMatch,
      Match(1, JoXy, Founder),
      Match(1, XyJo, Founder),
      Match(2, JoXyAndJoJo, << >>),
      Match(3, Founder, JoXy),
      Match(4, JoXy, Founder),
      Match(4, JoXy, JoXy) }

\* The pattern's exec loop (`while ((match = pattern.exec(s)) !== null)`,
\* or matchAll) from lastIndex on: the matches in text order; lastIndex is
\* the position of the last match and is 0 again once exec finds no more.
RECURSIVE ExecLoop(_, _, _, _)
ExecLoop(txt, pattern, lastIndex, found) ==
    LET hits == { i \in DOMAIN txt : i > lastIndex /\ txt[i].pattern = pattern }
    IN  IF hits = {} THEN [matches |-> found, lastIndex |-> 0]
        ELSE LET i == CHOOSE h \in hits : \A k \in hits : h <= k
             IN  ExecLoop(txt, pattern, i, Append(found, txt[i]))

\* The fullName and the title extractContactsFromMarkdown takes from a
\* match, by the branch its `pattern.source.includes(...)` tests select.
MarkdownFields(m) ==
    LET source == PatternSources[m.pattern]
    IN  IF Includes(source, FoundedByText)
        THEN [fullName |-> m.g1, title |-> Founder]
        ELSE IF Includes(source, IsTheText)
        THEN [fullName |-> m.g1, title |-> m.g2]
        ELSE IF Includes(source, CeoColonText)
        THEN [fullName |-> m.g2, title |-> m.g1]
        ELSE [fullName |-> m.g1, title |-> m.g2]

\* The contacts one match adds in extractContactsFromMarkdown.
MarkdownContacts(m) ==
    LET f == MarkdownFields(m)
    IN  IF isValidName(f.fullName)
        THEN << [fullName |-> Trim(f.fullName), title |-> Trim(f.title)] >>
        ELSE << >>

\* `namesText.split(/\s+and\s+/i)`, on the words of the text.
RECURSIVE SplitAndFrom(_, _, _)
SplitAndFrom(words, cur, acc) ==
    IF words = << >> THEN Append(acc, Join(cur, <<" ">>))
    ELSE IF /\ LowerWord(Head(words)) = <<"a", "n", "d">>
            /\ cur # << >>
            /\ Tail(words) # << >>
         THEN SplitAndFrom(Tail(words), << >>, Append(acc, Join(cur, <<" ">>)))
         ELSE SplitAndFrom(Tail(words), Append(cur, Head(words)), acc)

SplitAnd(namesText) == SplitAndFrom(Split(namesText), << >>, << >>)

\* `titles.some(t => potentialTitle.toLowerCase().includes(t.toLowerCase()))`
IsTitle(potentialTitle) ==
    \E t \in Titles : Includes(LowerWord(potentialTitle), LowerWord(t))

\* The contact extractContactsFromText pushes for a name and a title, if
\* parseFullName accepts the name.
TextContact(fullName, title) ==
    LET name == parseFullNameOfSearch(fullName)
    IN  IF name.ok
        THEN << [fullName |-> name.fullName, firstName |-> name.firstName,
                 lastName |-> name.lastName, title |-> title,
                 source |-> "google_search"] >>
        ELSE << >>

\* The contacts of a list of names, all with the same title.
RECURSIVE TextContactsOfNames(_, _)
TextContactsOfNames(names, title) ==
    IF names = << >> THEN << >>
    ELSE TextContact(Trim(Head(names)), title)
            \o TextContactsOfNames(Tail(names), title)

\* The contacts one match adds in extractContactsFromText.
TextContacts(m) ==
    CASE m.pattern = 1 -> TextContact(Trim(m.g1), Trim(m.g2))
      [] m.pattern = 2 -> TextContactsOfNames(SplitAnd(m.g1), Founder)
      [] m.pattern = 3 -> TextContact(Trim(m.g2), Trim(m.g1))
      [] m.pattern = 4 -> IF IsTitle(Trim(m.g2))
                          THEN TextContact(Trim(m.g1), Trim(m.g2))
                          ELSE << >>

\* The contacts of a list of matches of one pattern.
RECURSIVE ContactsOfMatches(_, _)
ContactsOfMatches(by, matches) ==
    IF matches = << >> THEN << >>
    ELSE (IF by = "markdown" THEN MarkdownContacts(Head(matches))
                             ELSE TextContacts(Head(matches)))
            \o ContactsOfMatches(by, Tail(matches))

\* Mutant: the array `contacts` lives at module level and is never emptied.
NewContacts_ModuleLevel(left) == left

\* `const contacts = []`: every call starts with an array of its own,
\* whatever the call before left in its array.
NewContacts(left) == << >>

\* The pattern objects are created inside the function, by regular
\* expression literals: every call has its own, with lastIndex 0.
NewPatterns(left) == [p \in DOMAIN left |-> 0]

\* One pattern after the other, in the order of the code: its matches from
\* lastIndex on are turned into contacts.
RECURSIVE ExtractFrom(_, _, _, _, _)
ExtractFrom(by, txt, pattern, lastIndex, contactsSoFar) ==
    IF pattern > (IF by = "markdown" THEN NumMarkdownPatterns
                                     ELSE NumTextPatterns)
    THEN [contacts |-> contactsSoFar, lastIndex |-> lastIndex]
    ELSE LET run == ExecLoop(txt, pattern, lastIndex[pattern], << >>)
         IN  ExtractFrom(by, txt, pattern + 1,
                         [lastIndex EXCEPT ![pattern] = run.lastIndex],
                         contactsSoFar \o ContactsOfMatches(by, run.matches))

\* The array the last call returned.
LeftContacts ==
    IF extractions = << >> THEN << >>
    ELSE extractions[Len(extractions)].out

\* The texts of at most MaxMatches matches.
TextsOf(matches) == UNION { [1..n -> matches] : n \in 0..MaxMatches }

\* An extractor is about to be called, several times, with two texts.
ExtractStart ==
    /\ extractor \in {"text", "markdown"}
    /\ texts \in [a : TextsOf(IF extractor = "markdown" THEN MarkdownMatches
                                                         ELSE TextMatches),
                   b : { << >>, << Match(1, JoXy, Founder) >> }]
    /\ extractions = << >>
    /\ patternLastIndex = [p \in 1..NumMarkdownPatterns |-> 0]

\* One call of the extractor `by` with one of the two texts.
Extract(by) ==
    /\ UNCHANGED othersOfExtract
    /\ extractor = by
    /\ Len(extractions) < MaxCalls
    /\ \E txt \in {texts.a, texts.b} :
          LET run == ExtractFrom(by, txt, 1, NewPatterns(patternLastIndex),
                                 NewContacts(LeftContacts))
          IN  /\ extractions' =
                    Append(extractions, [text |-> txt, out |-> run.contacts])
              /\ patternLastIndex' = run.lastIndex
    /\ UNCHANGED << extractor, texts >>

extractContactsFromText == Extract("text")

extractContactsFromMarkdown == Extract("markdown")

ExtractNext == extractContactsFromText \/ extractContactsFromMarkdown

InitExtract ==
    /\ DiscoveryIdle /\ FirecrawlIdle /\ NameIdle
    /\ ExtraIdleBut("extractContacts") /\ ExtractStart

SpecExtract == InitExtract /\ [][ExtractNext]_vars

\* ------------------------------------------------ POST /api/find-contacts

bulkCounters == << totalContactsFound, leadsProcessed, bulkErrors >>
bulkHistory == << started, handled, delayedAfter >>

\* `if (!jobId)`: the request is answered with status 400.
BulkNoJobId ==
    /\ UNCHANGED othersOfBulk
    /\ bulkPc = "start"
    /\ bulkPc' = "done"
    /\ bulkResponse' = 400
    /\ UNCHANGED << leadCount, leadIdx, leadContacts, contactIdx, bulkInflight,
                    bulkHistory, bulkCounters >>

\* The leads of the job are selected.
BulkSelectLeads ==
    /\ UNCHANGED othersOfBulk
    /\ bulkPc = "start"
    /\ bulkPc' = "select_wait"
    /\ bulkInflight' = { <<"select", 0, 0>> }
    /\ UNCHANGED << leadCount, leadIdx, leadContacts, contactIdx, bulkHistory,
                    bulkCounters, bulkResponse >>

\* The select is answered: an error gives status 500, no lead gives an
\* empty success, otherwise the loop over the leads begins.
BulkLeadsSelected ==
    /\ UNCHANGED othersOfBulk
    /\ bulkPc = "select_wait"
    /\ bulkInflight' = {}
    /\ \E n \in -1..MaxLeads :
          /\ leadCount' = n
          /\ bulkPc' = IF n <= 0 THEN "done" ELSE "loop"
          /\ bulkResponse' = IF n = -1 THEN 500 ELSE IF n = 0 THEN 200 ELSE 0
    /\ UNCHANGED << leadIdx, leadContacts, contactIdx, bulkHistory,
                    bulkCounters >>

\* The next iteration of `for (const lead of leadsData)`, or the response
\* after the last lead.
NextLead ==
    /\ leadIdx' = leadIdx + 1
    /\ bulkPc' = IF leadIdx < leadCount THEN "loop" ELSE "done"
    /\ bulkResponse' = IF leadIdx < leadCount THEN 0 ELSE 200

\* `await findAllContacts(...)` is called for the current lead.
BulkDiscover ==
    /\ UNCHANGED othersOfBulk
    /\ bulkPc = "loop"
    /\ bulkPc' = "discover_wait"
    /\ bulkInflight' = { <<"discover", leadIdx, 0>> }
    /\ started' = Append(started, leadIdx)
    /\ UNCHANGED << leadCount, leadIdx, leadContacts, contactIdx, handled,
                    delayedAfter, bulkCounters, bulkResponse >>

\* findAllContacts returned no contact: `continue`.
BulkNoContacts ==
    /\ UNCHANGED othersOfBulk
    /\ bulkPc = "discover_wait"
    /\ bulkInflight' = {}
    /\ NextLead
    /\ UNCHANGED << leadCount, leadContacts, contactIdx, bulkHistory,
                    bulkCounters >>

\* findAllContacts returned contacts and the domain is derived.
BulkContactsFound ==
    /\ UNCHANGED othersOfBulk
    /\ bulkPc = "discover_wait"
    /\ bulkInflight' = {}
    /\ \E n \in 1..MaxLeadContacts :
          /\ leadContacts' = n
          /\ handled' = [handled EXCEPT ![leadIdx].found = n]
    /\ contactIdx' = 1
    /\ bulkPc' = "insert"
    /\ UNCHANGED << leadCount, leadIdx, started, delayedAfter, bulkCounters,
                    bulkResponse >>

\* Mutant: the catch of the lead loop ends the request with status 500.
BulkCatch_Abort ==
    /\ bulkErrors' = bulkErrors + 1
    /\ leadIdx' = leadIdx
    /\ bulkPc' = "done"
    /\ bulkResponse' = 500

\* The catch of the lead loop: the error is noted and the loop goes on.
BulkCatch ==
    /\ bulkErrors' = bulkErrors + 1
    /\ NextLead

\* Something in the try block throws after discovery: the domain of a lead
\* without website and business name, or a rejected insert.
BulkLeadThrows ==
    /\ UNCHANGED othersOfBulk
    /\ bulkPc \in {"insert", "insert_wait"}
    /\ bulkInflight' = {}
    /\ BulkCatch
    /\ handled' = [handled EXCEPT ![leadIdx].threw = TRUE]
    /\ UNCHANGED << leadCount, leadContacts, contactIdx, started, delayedAfter,
                    totalContactsFound, leadsProcessed >>

\* `await supabase.from('contacts').insert(...)` for the current contact.
BulkInsert ==
    /\ UNCHANGED othersOfBulk
    /\ bulkPc = "insert"
    /\ bulkPc' = "insert_wait"
    /\ bulkInflight' = { <<"insert", leadIdx, contactIdx>> }
    /\ UNCHANGED << leadCount, leadIdx, leadContacts, contactIdx, bulkHistory,
                    bulkCounters, bulkResponse >>

\* The insert is answered, with insertError or without.
BulkInserted ==
    /\ UNCHANGED othersOfBulk
    /\ bulkPc = "insert_wait"
    /\ bulkInflight' = {}
    /\ \E insertError \in BOOLEAN :
          IF insertError
          THEN /\ bulkErrors' = bulkErrors + 1
               /\ UNCHANGED totalContactsFound
          ELSE /\ totalContactsFound' = totalContactsFound + 1
               /\ UNCHANGED bulkErrors
    /\ handled' = [handled EXCEPT
                     ![leadIdx].answered = @ + 1,
                     ![leadIdx].saved =
                        @ + (totalContactsFound' - totalContactsFound)]
    /\ bulkPc' = "contact_delay"
    /\ UNCHANGED << leadCount, leadIdx, leadContacts, contactIdx, started,
                    delayedAfter, leadsProcessed, bulkResponse >>

\* The delay of 500 ms after a contact is over: the next contact, or the
\* end of the lead.
BulkContactDelay ==
    /\ UNCHANGED othersOfBulk
    /\ bulkPc = "contact_delay"
    /\ IF contactIdx < leadContacts
       THEN /\ contactIdx' = contactIdx + 1
            /\ bulkPc' = "insert"
            /\ UNCHANGED leadsProcessed
       ELSE /\ leadsProcessed' = leadsProcessed + 1
            /\ bulkPc' = "lead_delay"
            /\ UNCHANGED contactIdx
    /\ UNCHANGED << leadCount, leadIdx, leadContacts, bulkInflight,
                    bulkHistory, totalContactsFound, bulkErrors, bulkResponse >>

\* The delay of 2000 ms between leads is over.
BulkLeadDelay ==
    /\ UNCHANGED othersOfBulk
    /\ bulkPc = "lead_delay"
    /\ delayedAfter' = delayedAfter \cup { leadIdx }
    /\ NextLead
    /\ UNCHANGED << leadCount, leadContacts, contactIdx, bulkInflight,
                    started, handled, bulkCounters >>

BulkNext ==
    \/ BulkNoJobId
    \/ BulkSelectLeads
    \/ BulkLeadsSelected
    \/ BulkDiscover
    \/ BulkNoContacts
    \/ BulkContactsFound
    \/ BulkLeadThrows
    \/ BulkInsert
    \/ BulkInserted
    \/ BulkContactDelay
    \/ BulkLeadDelay

InitBulk ==
    /\ DiscoveryIdle /\ FirecrawlIdle /\ NameIdle
    /\ ExtraIdleBut("findContactsRoute") /\ BulkAt("start")

SpecBulk == InitBulk /\ [][BulkNext]_vars

\* ------------------------------------------------------ POST /api/scrape

\* `place.placeId || null`: no id, or one of two ids.
PlaceIds == { "null", "p1", "p2" }

\* The rows of the table with the given place_id.
RowsWith(table, pid) == { i \in DOMAIN table : table[i].place_id = pid }

\* Mutant: the select never finds a row.
SingleRow_Missing(table, pid) == 0

\* `.select('*').eq('place_id', placeId).single()`: the row, if there is
\* exactly one; no data (0) for no row and for several.
SingleRow(table, pid) ==
    IF Cardinality(RowsWith(table, pid)) = 1
    THEN CHOOSE i \in RowsWith(table, pid) : TRUE
    ELSE 0

\* The unique constraint on place_id: a second row with the same non-null
\* place_id is rejected by the database.
ViolatesUnique(table, pid) == pid # "null" /\ RowsWith(table, pid) # {}

scrapeCounters == << insertedCount, updatedCount >>

\* A request that is answered before the places are processed: invalid
\* input, no API token, the job row not created, or the actor run failing.
ScrapeRejected ==
    /\ UNCHANGED othersOfScrape
    /\ scrapePc = "start"
    /\ runNo < MaxRuns
    /\ runNo' = runNo + 1
    /\ UNCHANGED << scrapePc, leadsTable, placeCount, placeIdx, placeId,
                    existingLead, scrapeCounters, callFailed >>

\* A run up to the loop: the job row is created, the actor has run and its
\* items are retrieved; without items the job is completed at once.
ScrapeRun ==
    /\ UNCHANGED othersOfScrape
    /\ scrapePc = "start"
    /\ runNo < MaxRuns
    /\ runNo' = runNo + 1
    /\ \E n \in 0..MaxPlaces :
          /\ placeCount' = n
          /\ scrapePc' = IF n = 0 THEN "start" ELSE "place"
    /\ placeIdx' = 1
    /\ placeId' \in PlaceIds
    /\ existingLead' = 0
    /\ insertedCount' = 0
    /\ updatedCount' = 0
    /\ callFailed' = FALSE
    /\ UNCHANGED leadsTable

\* The next iteration of `for (const place of placesData)`, or the end of
\* the run.
NextPlace ==
    IF placeIdx < placeCount
    THEN /\ placeIdx' = placeIdx + 1
         /\ placeId' \in PlaceIds
         /\ scrapePc' = "place"
    ELSE /\ scrapePc' = "start"
         /\ UNCHANGED << placeIdx, placeId >>

\* `if (placeId)`: the select by place_id is issued; without an id the
\* insert is.
PlaceLookup ==
    /\ UNCHANGED othersOfScrape
    /\ scrapePc = "place"
    /\ scrapePc' = IF placeId # "null" THEN "select_wait" ELSE "insert_wait"
    /\ existingLead' = 0
    /\ UNCHANGED << leadsTable, runNo, placeCount, placeIdx, placeId,
                    scrapeCounters, callFailed >>

\* The select is answered: `if (existingLead)` issues the update, otherwise
\* the insert is issued.  A failed select gives no data.
SelectAnswered ==
    /\ UNCHANGED othersOfScrape
    /\ scrapePc = "select_wait"
    /\ \E failed \in BOOLEAN :
          /\ callFailed' = failed
          /\ existingLead' = IF failed THEN 0
                             ELSE SingleRow(leadsTable, placeId)
    /\ scrapePc' = IF existingLead' # 0 THEN "update_wait" ELSE "insert_wait"
    /\ UNCHANGED << leadsTable, runNo, placeCount, placeIdx, placeId,
                    scrapeCounters >>

\* The update of the existing row is answered; `continue`.
UpdateAnswered ==
    /\ UNCHANGED othersOfScrape
    /\ scrapePc = "update_wait"
    /\ \E updateError \in BOOLEAN :
          /\ callFailed' = updateError
          /\ IF updateError
             THEN UNCHANGED << leadsTable, updatedCount >>
             ELSE /\ leadsTable' = [leadsTable EXCEPT
                                      ![existingLead].last_updated = runNo]
                  /\ updatedCount' = updatedCount + 1
    /\ NextPlace
    /\ UNCHANGED << runNo, placeCount, existingLead, insertedCount >>

\* The insert of a new row is answered: the database rejects it on an
\* error of its own and when the place_id is in the table already.
InsertAnswered ==
    /\ UNCHANGED othersOfScrape
    /\ scrapePc = "insert_wait"
    /\ \E dbError \in BOOLEAN :
          LET insertError == dbError \/ ViolatesUnique(leadsTable, placeId)
          IN  /\ callFailed' = insertError
              /\ IF insertError
                 THEN UNCHANGED << leadsTable, insertedCount >>
                 ELSE /\ leadsTable' =
                            Append(leadsTable,
                                   [place_id |-> placeId, job_id |-> runNo,
                                    last_updated |-> 0])
                      /\ insertedCount' = insertedCount + 1
    /\ NextPlace
    /\ UNCHANGED << runNo, placeCount, existingLead, updatedCount >>

\* A database call rejects instead of answering: the catch around the loop
\* marks the job failed and the run is over.
ScrapeThrows ==
    /\ UNCHANGED othersOfScrape
    /\ scrapePc \in {"select_wait", "update_wait", "insert_wait"}
    /\ scrapePc' = "start"
    /\ callFailed' = TRUE
    /\ UNCHANGED << leadsTable, runNo, placeCount, placeIdx, placeId,
                    existingLead, scrapeCounters >>

ScrapeNext ==
    \/ ScrapeRejected
    \/ ScrapeRun
    \/ PlaceLookup
    \/ SelectAnswered
    \/ UpdateAnswered
    \/ InsertAnswered
    \/ ScrapeThrows

InitScrape ==
    /\ DiscoveryIdle /\ FirecrawlIdle /\ NameIdle
    /\ ExtraIdleBut("scrapeRoute") /\ ScrapeAt("start")

SpecScrape == InitScrape /\ [][ScrapeNext]_vars

\* ----------------------- POST /api/markets/[keyword]/[location]/find-contacts

\* The rows of the table contacts with lead_id of lead l.
RowsOfLead(l) == contactRows[l][1] + contactRows[l][2]

\* The next iteration of the lead loops (over the jobs of the market and
\* the leads of each job), or the response after the last lead.
NextMarketLead(r) ==
    /\ mLeadIdx' = [mLeadIdx EXCEPT ![r] = @ + 1]
    /\ mPc' = [mPc EXCEPT ![r] =
                  IF mLeadIdx[r] < MaxMarketLeads THEN "lead" ELSE "done"]

\* The request begins: the jobs of the market are selected; without jobs
\* it is answered with status 404, otherwise the lead loops begin.
MarketStart(r) ==
    /\ UNCHANGED othersOfMarket
    /\ mPc[r] = "start"
    /\ \E found \in BOOLEAN :
          mPc' = [mPc EXCEPT ![r] = IF found THEN "lead" ELSE "done"]
    /\ mStartedAfter' =
          [mStartedAfter EXCEPT ![r] = { q \in Requests : mPc[q] = "done" }]
    /\ UNCHANGED << mLeadIdx, mCount, mContacts, mContactIdx, contactRows,
                    mDiscovered >>

\* The count of the contacts of the current lead is requested.
MarketCheck(r) ==
    /\ UNCHANGED othersOfMarket
    /\ mPc[r] = "lead"
    /\ mPc' = [mPc EXCEPT ![r] = "check_wait"]
    /\ UNCHANGED << mLeadIdx, mCount, mContacts, mContactIdx, contactRows,
                    mDiscovered, mStartedAfter >>

\* `if (existingContacts && existingContacts > 0) continue`
SkipLead(existingContacts) == existingContacts > 0

\* The count is answered: the number of rows, or null when the query gave
\* an error (only `count` is read from the answer).  The lead is skipped,
\* or findAllContacts is called.
MarketChecked(r) ==
    /\ UNCHANGED othersOfMarket
    /\ mPc[r] = "check_wait"
    /\ \E failed \in BOOLEAN :
          LET existingContacts ==
                  IF failed THEN -1 ELSE RowsOfLead(mLeadIdx[r])
          IN  /\ mCount' = [mCount EXCEPT ![r] = existingContacts]
              /\ IF SkipLead(existingContacts)
                 THEN /\ NextMarketLead(r)
                      /\ UNCHANGED mDiscovered
                 ELSE /\ mPc' = [mPc EXCEPT ![r] = "discover_wait"]
                      /\ mDiscovered' = mDiscovered \cup
                            { << r, mLeadIdx[r], RowsOfLead(mLeadIdx[r]) >> }
                      /\ UNCHANGED mLeadIdx
    /\ UNCHANGED << mContacts, mContactIdx, contactRows, mStartedAfter >>

\* findAllContacts returned no contact: `continue`.
MarketNoContacts(r) ==
    /\ UNCHANGED othersOfMarket
    /\ mPc[r] = "discover_wait"
    /\ NextMarketLead(r)
    /\ UNCHANGED << mCount, mContacts, mContactIdx, contactRows, mDiscovered,
                    mStartedAfter >>

\* findAllContacts returned contacts: the insert of the first is issued.
MarketContactsFound(r) ==
    /\ UNCHANGED othersOfMarket
    /\ mPc[r] = "discover_wait"
    /\ \E n \in 1..MaxLeadContacts : mContacts' = [mContacts EXCEPT ![r] = n]
    /\ mContactIdx' = [mContactIdx EXCEPT ![r] = 1]
    /\ mPc' = [mPc EXCEPT ![r] = "insert_wait"]
    /\ UNCHANGED << mLeadIdx, mCount, contactRows, mDiscovered, mStartedAfter >>

\* The insert of the current contact is answered, with insertError or
\* without; after the delay the insert of the next contact is issued, or
\* the lead is done.
MarketInserted(r) ==
    /\ UNCHANGED othersOfMarket
    /\ mPc[r] = "insert_wait"
    /\ \E insertError \in BOOLEAN :
          contactRows' =
              IF insertError THEN contactRows
              ELSE [contactRows EXCEPT ![mLeadIdx[r]][r] = @ + 1]
    /\ IF mContactIdx[r] < mContacts[r]
       THEN /\ mContactIdx' = [mContactIdx EXCEPT ![r] = @ + 1]
            /\ UNCHANGED << mPc, mLeadIdx >>
       ELSE /\ NextMarketLead(r)
            /\ UNCHANGED mContactIdx
    /\ UNCHANGED << mCount, mContacts, mDiscovered, mStartedAfter >>

\* An awaited call of the lead's try block rejects: the catch notes the
\* error and the loop goes on with the next lead.
MarketLeadThrows(r) ==
    /\ UNCHANGED othersOfMarket
    /\ mPc[r] \in {"check_wait", "discover_wait", "insert_wait"}
    /\ NextMarketLead(r)
    /\ UNCHANGED << mCount, mContacts, mContactIdx, contactRows, mDiscovered,
                    mStartedAfter >>

MarketNext ==
    \E r \in Requests :
        \/ MarketStart(r)
        \/ MarketCheck(r)
        \/ MarketChecked(r)
        \/ MarketNoContacts(r)
        \/ MarketContactsFound(r)
        \/ MarketInserted(r)
        \/ MarketLeadThrows(r)

InitMarket ==
    /\ DiscoveryIdle /\ FirecrawlIdle /\ NameIdle
    /\ ExtraIdleBut("marketRoute") /\ MarketAt("start")

SpecMarket == InitMarket /\ [][MarketNext]_vars

\* ------------------------------ POST /api/find-contacts with validation

\* What getRemainingCredits can return: null (no key, or the request
\* failed), parseInt of the Credits text (a number, -1 for a key that is
\* not valid), or NaN when the text holds no number.
CreditAnswers ==
    { [type |-> "null", value |-> 0], [type |-> "NaN", value |-> 0] } \cup
    { [type |-> "number", value |-> v] :
        v \in {-1, 0, MinCredits - 1, MinCredits, MinCredits + 1} }

\* The status of an EmailValidationResult; isValid is status === 'valid'.
ValidationStatuses == { "valid", "invalid", "catch-all", "unknown" }

\* `quotaRemaining !== null && quotaRemaining < 10`
LowCredits(q) == q.type = "number" /\ q.value < MinCredits

\* Mutant: the quota is not looked at before a validation.
QuotaExhausted_Never(q) == FALSE

\* `quotaRemaining !== null && quotaRemaining <= 0`
QuotaExhausted(q) == q.type = "number" /\ q.value <= 0

\* `if (quotaRemaining !== null) quotaRemaining--`
Decrement(q) ==
    IF q.type = "number" THEN [q EXCEPT !.value = @ - 1] ELSE q

\* `validation.isValid || validation.status === 'catch-all'`
Usable(status) == status \in {"valid", "catch-all"}

\* The request up to the credit check: without a job id, with a failed
\* select or without leads it is answered at once.
ValidateBegin ==
    /\ UNCHANGED othersOfValidate
    /\ zPc = "start"
    /\ \E n \in 0..MaxJobLeads :
          /\ zLeadCount' = n
          /\ zPc' = IF n = 0 THEN "done" ELSE "credits_wait"
    /\ UNCHANGED << quotaRemaining, quotaAtStart, zLeadIdx, zContacts,
                    zContactIdx, zVariations, zVariationIdx, validEmail,
                    emailStatus, zAnswer, zRow, zStarted,
                    totalEmailsValidated >>

\* `let quotaRemaining = await getRemainingCredits()` and the answer with
\* status 400 when fewer than 10 credits are left.
ValidateCredits ==
    /\ UNCHANGED othersOfValidate
    /\ zPc = "credits_wait"
    /\ \E q \in CreditAnswers :
          /\ quotaRemaining' = q
          /\ quotaAtStart' = q
          /\ zPc' = IF LowCredits(q) THEN "done" ELSE "lead"
    /\ UNCHANGED << zLeadCount, zLeadIdx, zContacts, zContactIdx, zVariations,
                    zVariationIdx, validEmail, emailStatus, zAnswer, zRow,
                    zStarted, totalEmailsValidated >>

\* The next iteration of the lead loop, or the refresh of the quota after
\* the last lead.
ValidateNextLead ==
    /\ zLeadIdx' = zLeadIdx + 1
    /\ zPc' = IF zLeadIdx < zLeadCount THEN "lead" ELSE "refresh_wait"

\* `await findAllContacts(...)` is called for the current lead.
ValidateDiscover ==
    /\ UNCHANGED othersOfValidate
    /\ zPc = "lead"
    /\ zPc' = "discover_wait"
    /\ zStarted' = zStarted + 1
    /\ UNCHANGED << quotaRemaining, quotaAtStart, zLeadCount, zLeadIdx,
                    zContacts, zContactIdx, zVariations, zVariationIdx,
                    validEmail, emailStatus, zAnswer, zRow,
                    totalEmailsValidated >>

\* The body of the contact loop begins: generateEmails, validEmail = null,
\* emailStatus = 'unknown'.
BeginContact ==
    /\ zVariations' \in 1..MaxVariations
    /\ zVariationIdx' = 1
    /\ validEmail' = 0
    /\ emailStatus' = "unknown"
    /\ zPc' = "variation"

\* findAllContacts returned: `continue` without contacts, otherwise the
\* contact loop begins.
ValidateDiscovered ==
    /\ UNCHANGED othersOfValidate
    /\ zPc = "discover_wait"
    /\ \E n \in 0..MaxLeadContacts :
          /\ zContacts' = n
          /\ IF n = 0
             THEN /\ ValidateNextLead
                  /\ UNCHANGED << zVariations, zVariationIdx, validEmail,
                                  emailStatus >>
             ELSE /\ BeginContact
                  /\ UNCHANGED zLeadIdx
    /\ zContactIdx' = 1
    /\ UNCHANGED << quotaRemaining, quotaAtStart, zLeadCount, zAnswer, zRow,
                    zStarted, totalEmailsValidated >>

\* The quota is used up: `break` out of the variation loop.
ValidateQuotaExhausted ==
    /\ UNCHANGED othersOfValidate
    /\ zPc = "variation"
    /\ QuotaExhausted(quotaRemaining)
    /\ zPc' = "insert"
    /\ UNCHANGED << quotaRemaining, quotaAtStart, zLeadCount, zLeadIdx,
                    zContacts, zContactIdx, zVariations, zVariationIdx,
                    validEmail, emailStatus, zAnswer, zRow, zStarted,
                    totalEmailsValidated >>

\* `const validation = await validateEmail(email)` is issued.
ValidateEmailCall ==
    /\ UNCHANGED othersOfValidate
    /\ zPc = "variation"
    /\ ~QuotaExhausted(quotaRemaining)
    /\ zPc' = "validate_wait"
    /\ UNCHANGED << quotaRemaining, quotaAtStart, zLeadCount, zLeadIdx,
                    zContacts, zContactIdx, zVariations, zVariationIdx,
                    validEmail, emailStatus, zAnswer, zRow, zStarted,
                    totalEmailsValidated >>

\* validateEmail returned: the counters, then the break on a valid or
\* catch-all address, or the delay and the next variation.
ValidateEmailReturned ==
    /\ UNCHANGED othersOfValidate
    /\ zPc = "validate_wait"
    /\ totalEmailsValidated' = totalEmailsValidated + 1
    /\ quotaRemaining' = Decrement(quotaRemaining)
    /\ \E status \in ValidationStatuses :
          /\ zAnswer' = status
          /\ IF Usable(status)
             THEN /\ validEmail' = zVariationIdx
                  /\ emailStatus' = status
                  /\ zPc' = "insert"
                  /\ UNCHANGED zVariationIdx
             ELSE /\ UNCHANGED << validEmail, emailStatus >>
                  /\ IF zVariationIdx < zVariations
                     THEN /\ zVariationIdx' = zVariationIdx + 1
                          /\ zPc' = "variation"
                     ELSE /\ zPc' = "insert"
                          /\ UNCHANGED zVariationIdx
    /\ UNCHANGED << quotaAtStart, zLeadCount, zLeadIdx, zContacts,
                    zContactIdx, zVariations, zRow, zStarted >>

\* `await supabase.from('contacts').insert({..., email: validEmail,
\* email_status: emailStatus, ...})` is issued.
ValidateInsert ==
    /\ UNCHANGED othersOfValidate
    /\ zPc = "insert"
    /\ zPc' = "insert_wait"
    /\ zRow' = [email |-> validEmail, email_status |-> emailStatus]
    /\ UNCHANGED << quotaRemaining, quotaAtStart, zLeadCount, zLeadIdx,
                    zContacts, zContactIdx, zVariations, zVariationIdx,
                    validEmail, emailStatus, zAnswer, zStarted,
                    totalEmailsValidated >>

\* The insert is answered and the delay is over: the next contact, or the
\* end of the lead.
ValidateInserted ==
    /\ UNCHANGED othersOfValidate
    /\ zPc = "insert_wait"
    /\ IF zContactIdx < zContacts
       THEN /\ zContactIdx' = zContactIdx + 1
            /\ BeginContact
            /\ UNCHANGED zLeadIdx
       ELSE /\ ValidateNextLead
            /\ UNCHANGED << zContactIdx, zVariations, zVariationIdx,
                            validEmail, emailStatus >>
    /\ UNCHANGED << quotaRemaining, quotaAtStart, zLeadCount, zContacts,
                    zAnswer, zRow, zStarted, totalEmailsValidated >>

\* The insert rejects: the catch of the lead loop, then the next lead.
ValidateLeadThrows ==
    /\ UNCHANGED othersOfValidate
    /\ zPc = "insert_wait"
    /\ ValidateNextLead
    /\ UNCHANGED << quotaRemaining, quotaAtStart, zLeadCount, zContacts,
                    zContactIdx, zVariations, zVariationIdx, validEmail,
                    emailStatus, zAnswer, zRow, zStarted,
                    totalEmailsValidated >>

\* `quotaRemaining = await getRemainingCredits()` after the loop, and the
\* response.
ValidateRefresh ==
    /\ UNCHANGED othersOfValidate
    /\ zPc = "refresh_wait"
    /\ quotaRemaining' \in CreditAnswers
    /\ zPc' = "done"
    /\ UNCHANGED << quotaAtStart, zLeadCount, zLeadIdx, zContacts,
                    zContactIdx, zVariations, zVariationIdx, validEmail,
                    emailStatus, zAnswer, zRow, zStarted,
                    totalEmailsValidated >>

ValidateNext ==
    \/ ValidateBegin
    \/ ValidateCredits
    \/ ValidateDiscover
    \/ ValidateDiscovered
    \/ ValidateQuotaExhausted
    \/ ValidateEmailCall
    \/ ValidateEmailReturned
    \/ ValidateInsert
    \/ ValidateInserted
    \/ ValidateLeadThrows
    \/ ValidateRefresh

InitValidate ==
    /\ DiscoveryIdle /\ FirecrawlIdle /\ NameIdle
    /\ ExtraIdleBut("validatingRoute") /\ ValidateAt("start")

SpecValidate == InitValidate /\ [][ValidateNext]_vars

\* ------------------------------------- POST /api/scrape: the job's status

\* What an awaited database write can do: succeed, answer with an error
\* (which the code reads or ignores), or reject.
WriteOutcomes == { "ok", "error", "throws" }

\* The row of the current job gets the status `to`.
SetStatus(to) ==
    /\ jobStatus' = [jobStatus EXCEPT ![jobNo] = to]
    /\ jobHistory' = [jobHistory EXCEPT ![jobNo] = Append(@, to)]

\* The response is returned; the next request can be handled.
Respond(status) ==
    /\ jobResponse' = [jobResponse EXCEPT ![jobNo] = status]
    /\ jobPc' = IF jobNo < MaxRuns THEN "start" ELSE "done"
    /\ jobNo' = IF jobNo < MaxRuns THEN jobNo + 1 ELSE jobNo

\* The outer catch: 'An unexpected error occurred', status 500.
OuterCatch == Respond(500)

\* The job row is inserted with status 'pending'; `jobError || !job`
\* answers with status 500.
JobCreate ==
    /\ UNCHANGED othersOfJob
    /\ jobPc = "start"
    /\ \E outcome \in WriteOutcomes :
          IF outcome = "ok"
          THEN /\ SetStatus("pending")
               /\ jobPc' = "running_wait"
               /\ UNCHANGED << jobNo, jobResponse >>
          ELSE /\ Respond(500)
               /\ UNCHANGED << jobStatus, jobHistory >>

\* `await supabase.from('scrape_jobs').update({ status: 'running' })`: the
\* answer is not looked at.
JobSetRunning ==
    /\ UNCHANGED othersOfJob
    /\ jobPc = "running_wait"
    /\ \E outcome \in WriteOutcomes :
          CASE outcome = "ok" ->
                  /\ SetStatus("running")
                  /\ jobPc' = "actor_wait"
                  /\ UNCHANGED << jobNo, jobResponse >>
            [] outcome = "error" ->
                  /\ jobPc' = "actor_wait"
                  /\ UNCHANGED << jobNo, jobStatus, jobHistory, jobResponse >>
            [] outcome = "throws" ->
                  /\ OuterCatch
                  /\ UNCHANGED << jobStatus, jobHistory >>

\* The actor run and the retrieval of its items, inside the try: it
\* throws, gives no item, or gives items.
JobActor ==
    /\ UNCHANGED othersOfJob
    /\ jobPc = "actor_wait"
    /\ \E run \in {"throws", "empty", "items"} :
          jobPc' = CASE run = "throws" -> "failed_wait"
                     [] run = "empty" -> "completed_wait"
                     [] run = "items" -> "leads_wait"
    /\ UNCHANGED << jobNo, jobStatus, jobHistory, jobResponse >>

\* The leads are saved: `throw new Error('Failed to save leads to
\* database')` on leadsError, and a rejected call, reach the inner catch.
JobLeads ==
    /\ UNCHANGED othersOfJob
    /\ jobPc = "leads_wait"
    /\ \E saved \in BOOLEAN :
          jobPc' = IF saved THEN "completed_wait" ELSE "failed_wait"
    /\ UNCHANGED << jobNo, jobStatus, jobHistory, jobResponse >>

\* The update to 'completed', inside the try, and the response; the answer
\* of the update is not looked at.
JobSetCompleted ==
    /\ UNCHANGED othersOfJob
    /\ jobPc = "completed_wait"
    /\ \E outcome \in WriteOutcomes :
          CASE outcome = "ok" ->
                  /\ SetStatus("completed")
                  /\ Respond(200)
            [] outcome = "error" ->
                  /\ Respond(200)
                  /\ UNCHANGED << jobStatus, jobHistory >>
            [] outcome = "throws" ->
                  /\ jobPc' = "failed_wait"
                  /\ UNCHANGED << jobNo, jobStatus, jobHistory, jobResponse >>

\* The inner catch: the update to 'failed' and the response with status
\* 500; the answer of the update is not looked at.
JobSetFailed ==
    /\ UNCHANGED othersOfJob
    /\ jobPc = "failed_wait"
    /\ \E outcome \in WriteOutcomes :
          CASE outcome = "ok" ->
                  /\ SetStatus("failed")
                  /\ Respond(500)
            [] outcome = "error" ->
                  /\ Respond(500)
                  /\ UNCHANGED << jobStatus, jobHistory >>
            [] outcome = "throws" ->
                  /\ OuterCatch
                  /\ UNCHANGED << jobStatus, jobHistory >>

JobNext ==
    \/ JobCreate
    \/ JobSetRunning
    \/ JobActor
    \/ JobLeads
    \/ JobSetCompleted
    \/ JobSetFailed

InitJob ==
    /\ DiscoveryIdle /\ FirecrawlIdle /\ NameIdle
    /\ ExtraIdleBut("scrapeJob") /\ JobAt("start")

SpecJob == InitJob /\ [][JobNext]_vars

\* ------------------------------- POST /api/scrape: updating an existing lead

\* `a || b` for values of which "undefined", "null", "zero" and "empty"
\* are falsy.
Falsy(v) == v \in {"undefined", "null", "zero", "empty"}
Or(a, b) == IF Falsy(a) THEN b ELSE a

\* `const leadData = {...}` and the locals it is built from.
LeadData(p) ==
    LET email == Or(p.emails0, "null")
    IN  [business_name  |-> Or(p.title, "Unknown Business"),
         address        |-> Or(p.address, "null"),
         phone          |-> Or(p.phones0, Or(p.phoneUnformatted,
                                              Or(p.phone, "null"))),
         website        |-> Or(p.website, "null"),
         rating         |-> Or(p.totalScore, "null"),
         review_count   |-> Or(p.reviewsCount, "null"),
         category       |-> Or(p.categories0, Or(p.categoryName, "null")),
         email          |-> email,
         email_found_at |-> IF Falsy(email) THEN "null" ELSE "now"]

\* The object passed to `.update(...)` for the row existingLead.
UpdatePayload(p, existing) ==
    LET leadData == LeadData(p)
    IN  [business_name  |-> leadData.business_name,
         address        |-> Or(leadData.address, existing.address),
         phone          |-> Or(leadData.phone, existing.phone),
         website        |-> Or(leadData.website, existing.website),
         email          |-> Or(leadData.email, existing.email),
         email_found_at |-> IF Falsy(leadData.email)
                            THEN existing.email_found_at ELSE "now",
         rating         |-> leadData.rating,
         review_count   |-> leadData.review_count,
         category       |-> Or(leadData.category, existing.category),
         last_updated   |-> "now"]

\* The row after the update: the columns of the payload are written, the
\* others are left as they are.
Updated(row, payload) ==
    [ col \in DOMAIN row |->
        IF col \in DOMAIN payload THEN payload[col] ELSE row[col] ]

\* The values a nullable column of a stored lead can have.
Stored == { "null", "old" }

\* The values an optional field of a place can have.
Scraped == { "undefined", "new" }

\* A lead found by its place_id and the place scraped again.
UpdateStart ==
    /\ existingRow \in
          [id : {"id"}, job_id : {"job"}, place_id : {"p1"},
           business_name : {"old"}, address : Stored, phone : Stored,
           website : Stored, email : Stored, email_found_at : Stored,
           category : Stored, rating : Stored, review_count : Stored,
           last_updated : {"null"}]
    /\ existingRow.email_found_at = "null" <=> existingRow.email = "null"
    /\ place \in
          [title : Scraped, address : Scraped, phones0 : Scraped,
           phoneUnformatted : {"undefined"}, phone : Scraped,
           website : Scraped, categories0 : Scraped,
           categoryName : {"undefined"}, emails0 : Scraped,
           totalScore : Scraped \cup {"zero"}, reviewsCount : Scraped]
    /\ rowAfter = [done |-> FALSE, row |-> EmptyRow]

\* `if (existingLead)`: the update of the existing row succeeds.
UpdateExistingLead ==
    /\ UNCHANGED othersOfUpdate
    /\ ~rowAfter.done
    /\ rowAfter' = [done |-> TRUE,
                    row |-> Updated(existingRow,
                                    UpdatePayload(place, existingRow))]
    /\ UNCHANGED << existingRow, place >>

UpdateNext == UpdateExistingLead

InitUpdate ==
    /\ DiscoveryIdle /\ FirecrawlIdle /\ NameIdle
    /\ ExtraIdleBut("updateLead") /\ UpdateStart

SpecUpdate == InitUpdate /\ [][UpdateNext]_vars

\* ------------------------------------------------------------------ Next

Next ==
    \/ SkipTeamPage
    \/ EnterTeamPage
    \/ TeamPageCatch
    \/ TeamRequest
    \/ TeamResponseOk
    \/ TeamResponseError
    \/ TeamDelay
    \/ SearchNoKey
    \/ SearchRequest
    \/ SearchResponseOk
    \/ SearchResponseError
    \/ SearchDelay

Spec == Init /\ [][Next]_vars

\* ================================================================ claims

\* The elements of a list.
Range(s) == { s[i] : i \in DOMAIN s }

\* The letters of a contact's name, whatever their casing.
KeyOf(c) == c.fullName.key

\* The distinct names of a list of contacts.
KeysOf(cs) == { KeyOf(cs[i]) : i \in DOMAIN cs }

\* Where a name first occurs in a list that holds it.
FirstSeenAt(cs, k) ==
    CHOOSE i \in DOMAIN cs :
        KeyOf(cs[i]) = k /\ \A j \in 1..(i - 1) : KeyOf(cs[j]) # k

\* The entries of a list that carry a given name.
EntriesOf(cs, k) == { i \in DOMAIN cs : KeyOf(cs[i]) = k }

\* A name was returned by both passes, with different titles.
Collision(p, g) == KeyOf(p) = KeyOf(g) /\ p.title # g.title

\* C1 as stated: when both passes return the same name (ignoring case) with
\* different titles, the merged result holds exactly one entry of that name
\* and it is the one of the search pass.
C1_SearchEntryKept ==
    pc = "done" =>
        \A p \in Range(teamPageContacts), g \in Range(googleContacts) :
            Collision(p, g) =>
                /\ Cardinality(EntriesOf(result, KeyOf(g))) = 1
                /\ \A i \in EntriesOf(result, KeyOf(g)) : result[i] = g

\* C1 amended: when both passes return the same name (ignoring case) with
\* different titles, the merged result holds exactly one entry of that name
\* and it is the one of the page pass; the search entry never displaces it.
C1_PageEntryKept ==
    pc = "done" =>
        \A p \in Range(teamPageContacts), g \in Range(googleContacts) :
            Collision(p, g) =>
                /\ Cardinality(EntriesOf(result, KeyOf(p))) = 1
                /\ \A i \in EntriesOf(result, KeyOf(p)) : result[i] = p

\* C1 witness: discovery is over and both passes returned one name with
\* different titles.
C1_Witness ==
    /\ pc = "done"
    /\ \E p \in Range(teamPageContacts), g \in Range(googleContacts) :
          Collision(p, g)

\* The distinct names among the candidates both passes extracted.
CandidateKeys == KeysOf(contacts) \cup KeysOf(gContacts)

\* C2 as stated: for n distinct candidate names of the two passes together
\* discovery returns min(n, 15) contacts.
C2_MinOfCandidatesAnd15 ==
    pc = "done" =>
        Len(result) = Min(Cardinality(CandidateKeys), 15)

\* How many distinct names a list holds before the first occurrence of k.
RankOf(cs, k) ==
    Cardinality({ k2 \in KeysOf(cs) : FirstSeenAt(cs, k2) < FirstSeenAt(cs, k) })

\* C2 amended: discovery returns the first 10 distinct page candidates, then
\* those of the first 5 distinct search candidates that no returned page
\* contact names, each group in first-seen order and each name as first
\* seen; so p distinct page names and s distinct search names with none in
\* common give min(p, 10) + min(s, 5) contacts, never more than 15.
C2_PerSourceLimits ==
    pc = "done" =>
        LET np == Min(Cardinality(KeysOf(contacts)), 10)
            ns == Min(Cardinality(KeysOf(gContacts)), 5)
            raw(i) == IF i <= np THEN contacts ELSE gContacts
            pageKept == { KeyOf(result[i]) : i \in 1..np }
        IN  /\ np <= Len(result)
            /\ Len(result) <= np + ns
            /\ Len(result) <= 15
            /\ KeysOf(contacts) \cap KeysOf(gContacts) = {}
                  => Len(result) = np + ns
            /\ \A i \in DOMAIN result :
                  /\ result[i].source =
                        IF i <= np THEN "team_page" ELSE "google_search"
                  /\ KeyOf(result[i]) \in KeysOf(raw(i))
                  /\ LET at == FirstSeenAt(raw(i), KeyOf(result[i]))
                     IN  /\ result[i].fullName = raw(i)[at].fullName
                         /\ result[i].title = raw(i)[at].title
            /\ \A i \in 1..np : RankOf(contacts, KeyOf(result[i])) = i - 1
            /\ \A i, j \in (np + 1)..Len(result) :
                  i < j => RankOf(gContacts, KeyOf(result[i]))
                              < RankOf(gContacts, KeyOf(result[j]))
            /\ \A k \in KeysOf(gContacts) :
                  k \in KeysOf(SubSeq(result, np + 1, Len(result)))
                      <=> (RankOf(gContacts, k) < 5 /\ k \notin pageKept)

\* C2 witness: 20 distinct candidates, 12 of the pages and 8 of the search,
\* and 15 contacts returned.
C2_Witness ==
    /\ pc = "done"
    /\ Cardinality(CandidateKeys) >= 20
    /\ Cardinality(KeysOf(gContacts)) > 5
    /\ Cardinality(KeysOf(contacts)) > 10
    /\ Len(result) = 15

\* C3: the list findAllContacts returns never has more than 15 entries and
\* never holds two contacts whose names are equal ignoring case.
C3_AtMost15AndDistinct ==
    /\ Len(result) <= 15
    /\ \A i, j \in DOMAIN result :
          i # j => KeyOf(result[i]) # KeyOf(result[j])

\* C3 witness: 15 contacts are returned although the passes extracted one
\* name in two casings.
C3_Witness ==
    /\ pc = "done"
    /\ Len(result) = 15
    /\ \E i, j \in DOMAIN contacts :
          /\ KeyOf(contacts[i]) = KeyOf(contacts[j])
          /\ contacts[i].fullName # contacts[j].fullName

\* ------------------------------------------------- Firecrawl page pass

\* The account request succeeded and reported a credit balance of zero.
ReportedZeroCredits ==
    /\ fcProbe.kind = "ok"
    /\ fcProbe.credits = [type |-> "number", value |-> 0]

\* The number of firecrawl.scrape calls issued so far.
FetchesMade == Len(fcLog) + Cardinality(fcInflight)

\* C4: the page pass is skipped (no page fetch, no contact, creditsExhausted
\* true) exactly when the account request succeeds and reports 0 credits;
\* on a non-2xx status, a thrown error or any other value the path loop
\* proceeds and creditsExhausted is false.
C4_SkipExactlyOnZeroCredits ==
    fcProbe.kind # "none" =>
        IF ReportedZeroCredits
        THEN /\ fcPc = "done"
             /\ FetchesMade = 0
             /\ fcResult = [returned |-> TRUE, contacts |-> << >>,
                            creditsExhausted |-> TRUE]
        ELSE /\ ~fcResult.creditsExhausted
             /\ fcPc \in {"loop", "wait", "delay", "done"}
             /\ fcPc = "loop" => fcPathIdx \in 1..NumFcPaths
             /\ fcPc = "done" => fcResult.returned /\ FetchesMade >= 1

\* C4 witness: the balance is zero and the function has returned.
C4_Witness == ReportedZeroCredits /\ fcPc = "done"

\* The i-th page fetch gave markdown with at least one contact in it.
YieldedContact(i) ==
    /\ fcLog[i].kind = "result"
    /\ fcLog[i].markdown
    /\ Len(fcLog[i].found) >= 1

\* C5: the first fetched path that yields at least one contact is the last
\* path fetched; if it is the first path, exactly one page fetch is made.
C5_NoFetchAfterContacts ==
    \A i \in DOMAIN fcLog :
        YieldedContact(i) =>
            /\ i = Len(fcLog)
            /\ FetchesMade = i
            /\ fcPc = "done"
            /\ fcResult.returned

\* C5 witness: the first path yielded a contact and the function returned.
C5_Witness ==
    /\ fcPc = "done"
    /\ Len(fcLog) = 1
    /\ YieldedContact(1)

\* The i-th page fetch threw an error whose message signals a rate limit.
RateLimited(i) ==
    /\ fcLog[i].kind = "error"
    /\ fcLog[i].hasMessage
    /\ RateLimitText \in fcLog[i].includes

\* The i-th page fetch threw another error (a timeout or anything else).
FailedOtherwise(i) == fcLog[i].kind = "error" /\ ~RateLimited(i)

\* C6: a rate-limit error ends the path loop at once; after a timeout or
\* any other error the next path is fetched; in either case the function
\* returns the contacts collected so far.
C6_RateLimitEndsLoop ==
    /\ \A i \in DOMAIN fcLog :
          /\ RateLimited(i) =>
                /\ i = Len(fcLog)
                /\ FetchesMade = i
                /\ fcPc = "done"
          /\ FailedOtherwise(i) =>
                /\ (fcPc = "done" /\ i < NumFcPaths) => Len(fcLog) > i
                /\ (fcPc = "done" /\ i = Len(fcLog)) => fcResult.returned
    /\ (fcPc = "done" /\ ~ReportedZeroCredits) =>
          /\ fcResult.returned
          /\ ~fcResult.creditsExhausted
          /\ KeysOf(fcResult.contacts) \subseteq KeysOf(fcContacts)
          /\ Len(fcResult.contacts) =
                Min(Cardinality(KeysOf(fcContacts)), FcLimit)
          /\ KeysOf(fcContacts) =
                UNION { KeysOf(fcLog[i].found) : i \in DOMAIN fcLog }

\* C6 witness: a timeout on the first path, a rate limit on the second,
\* and the function returned without fetching the third.
C6_Witness ==
    /\ fcPc = "done"
    /\ Len(fcLog) = 2
    /\ FailedOtherwise(1)
    /\ TimeoutText \in fcLog[1].includes
    /\ RateLimited(2)

\* ----------------------------------------------------- failures, order

\* C7: a thrown error of a search query, of a page path or of a whole pass
\* counts as no contact from there: findAllContacts never throws, the later
\* paths, queries and the other pass still run, and the contacts of the
\* pass that did not fail are returned.
C7_FailuresYieldNoContacts ==
    /\ pc \in {"start", "team_thrown", "team_loop", "team_wait", "team_delay",
               "search", "search_loop", "search_wait", "search_delay", "done"}
    /\ (pageFails = nPageReq /\ inflight = {}) => contacts = << >>
    /\ (searchFails = nSearchReq /\ inflight = {}) => gContacts = << >>
    /\ pc = "done" =>
          /\ apiKey => nSearchReq = NumQueries
          /\ websiteUrl = "string" =>
                nPageReq = NumTeamPaths \/ Len(contacts) >= TeamBreakAt
          /\ pageFails = nPageReq =>
                /\ result = googleContacts
                /\ Cardinality(KeysOf(gContacts)) <= SearchLimit
                      => KeysOf(result) = KeysOf(gContacts)
          /\ searchFails = nSearchReq =>
                /\ result = teamPageContacts
                /\ Cardinality(KeysOf(contacts)) <= TeamLimit
                      => KeysOf(result) = KeysOf(contacts)

\* C7 witness: every page path threw, a search query threw too, and the
\* contacts of another query are returned.
C7_Witness ==
    /\ pc = "done"
    /\ pageFails = NumTeamPaths
    /\ searchFails >= 1
    /\ result # << >>

\* C8 as stated: the search pass comes first; no page path is fetched before
\* every search query was issued and answered.
C8_SearchBeforePage ==
    (apiKey /\ nPageReq > 0) =>
        /\ nSearchReq = NumQueries
        /\ \A call \in inflight : call[1] # "search"

\* C8 amended: the steps of one discovery run one after another with the
\* page pass first: once a search query was issued no page path is fetched
\* any more, and never are two network calls in flight at the same time.
C8_PageBeforeSearch ==
    /\ [](Cardinality(inflight) <= 1)
    /\ [][nSearchReq > 0 => nPageReq' = nPageReq]_vars
    /\ [](nSearchReq > 0 => \A call \in inflight : call[1] = "search")

\* C8 witness: all page paths were fetched and the first search query is
\* in flight.
C8_Witness ==
    /\ nPageReq = NumTeamPaths
    /\ inflight = { <<"search", 1>> }

\* ---------------------------------------------------------- isValidName

\* C9: a text of fewer than 2 or more than 4 words is no valid name,
\* whatever the words are.
C9_WordCountOutside2To4 ==
    (nameResult.called /\ Len(nameTokens) \notin 2..4) => ~nameResult.value

\* C9 witness: a text of five capitalised words that starts with a known
\* first name was validated.
C9_Witness ==
    /\ nameResult.called
    /\ nameTokens = << <<"J", "o">>, <<"X", "y">>, <<"X", "y">>,
                       <<"X", "y">>, <<"X", "y">> >>

\* C10: a text whose first word is not in the first-name set exactly as
\* written is no valid name, however the other words look.
C10_FirstWordNotAName ==
    (nameResult.called /\ nameTokens # << >>
        /\ nameTokens[1] \notin FirstNames) => ~nameResult.value

\* C10 witness: a text of two capitalised words whose first word is a
\* first name written in capitals was validated.
C10_Witness ==
    /\ nameResult.called
    /\ nameTokens = << <<"J", "O">>, <<"X", "y">> >>

\* The capital letters among the characters the texts are written with.
IsCapitalLetter(ch) == ch \in {"J", "O", "X", "D", "F", "U+00C9"}

\* The four rules of the name policy, on the words of the text.
FourRules ==
    /\ Len(nameTokens) \in 2..4
    /\ nameTokens[1] \in FirstNames
    /\ \A i \in DOMAIN nameTokens : IsCapitalLetter(nameTokens[i][1])
    /\ Len(nameTokens[Len(nameTokens)]) >= 2

\* C11 as stated: isValidName answers true exactly for the texts that meet
\* all four rules (2 to 4 words, first word in the first-name set, every
\* word starting with a capital letter, last word of 2 characters or more),
\* and a call leaves the first-name set as it was.
C11_ExactlyTheFourRules ==
    nameResult.called =>
        /\ nameResult.value <=> FourRules
        /\ validFirstNames = FirstNames

\* ------------------------------------------------------- contact fields

\* C12 as stated: every contact an extractor builds for the list that
\* findAllContacts returns, from the pages or from the search, has a
\* fullName of two words or more with no stop word among them, a firstName
\* that is the first word and is in the first-name set, and a lastName that
\* is the last word.
C12_ValidatedNameFields ==
    (parsed.by # "none" /\ parsed.name.ok) =>
        LET words == Split(parsed.name.fullName)
        IN  /\ Len(words) >= 2
            /\ \A i \in DOMAIN words : LowerWord(words[i]) \notin StopWords
            /\ parsed.name.firstName = words[1]
            /\ parsed.name.firstName \in FirstNames
            /\ parsed.name.lastName = words[Len(words)]

\* ------------------------------------------------------- generateEmails

\* The eight address forms for a first name, a last name and a domain.
FormsOf(first, last, d) ==
    << first \o <<"@">> \o d,
       last \o <<"@">> \o d,
       first \o <<".">> \o last \o <<"@">> \o d,
       first \o last \o <<"@">> \o d,
       CharAt0(first) \o last \o <<"@">> \o d,
       first \o CharAt0(last) \o <<"@">> \o d,
       CharAt0(first) \o <<".">> \o last \o <<"@">> \o d,
       first \o <<"_">> \o last \o <<"@">> \o d >>

\* The forms of the call made: the names in lower case, the domain as
\* generateEmails normalises it.
CallForms ==
    FormsOf(LowerWord(emailArgs.firstName), LowerWord(emailArgs.lastName),
            CleanDomain(emailArgs.domain))

\* The positions of the forms that equal no earlier form.
FirstOccurrences(forms) ==
    { i \in DOMAIN forms : \A j \in 1..(i - 1) : forms[j] # forms[i] }

\* C13: generateEmails returns the eight forms first@d, last@d,
\* first.last@d, firstlast@d, flast@d, firstl@d, f.last@d, first_last@d in
\* this order, without the forms that equal an earlier one; no address
\* occurs twice and the first address is first@d.
C13_FormsInOrderWithoutRepeats ==
    emailResult.called =>
        LET forms == CallForms
            kept == FirstOccurrences(forms)
            out == emailResult.emails
        IN  /\ Len(out) = Cardinality(kept)
            /\ \A k \in DOMAIN out :
                  out[k] = forms[CHOOSE i \in kept :
                                   Cardinality({ j \in kept : j < i }) = k - 1]
            /\ \A k, l \in DOMAIN out : out[k] = out[l] => k = l
            /\ out[1] = forms[1]

\* C13 witness: the first and the last name are the same word up to case,
\* so that forms repeat, and fewer than eight addresses are returned.
C13_Witness ==
    /\ emailResult.called
    /\ emailArgs.firstName = <<"J", "o">>
    /\ emailArgs.lastName = <<"j", "o">>
    /\ Len(emailResult.emails) < 8

\* The part of an address after its first @.
DomainPart(address) ==
    Drop(address, CHOOSE i \in DOMAIN address :
                     /\ address[i] = "@"
                     /\ \A j \in 1..(i - 1) : address[j] # "@")

\* C14 as stated: every address generateEmails returns is in lower case
\* throughout, and its domain part is the domain argument without protocol,
\* leading www., path and surrounding whitespace.
C14_LowerCaseCleanDomain ==
    emailResult.called =>
        \A k \in DOMAIN emailResult.emails :
            LET address == emailResult.emails[k]
            IN  /\ address = LowerWord(address)
                /\ LowerWord(DomainPart(address)) = LowerWord(domainParts.host)

\* ----------------------------------------------------------- extractors

\* C15: two calls of an extractor with the same text return the same list
\* of contacts, whatever calls with other texts were made before or
\* between them.
C15_SameTextSameContacts ==
    \A i, j \in DOMAIN extractions :
        extractions[i].text = extractions[j].text =>
            extractions[i].out = extractions[j].out

\* C15 witness: three calls, the first and the third with the same text,
\* the second with another; every call found a contact.
C15_Witness ==
    /\ Len(extractions) = 3
    /\ extractions[1].text = extractions[3].text
    /\ extractions[1].text # extractions[2].text
    /\ \A i \in 1..3 : extractions[i].out # << >>

\* The title-first pattern "<Title>: <Name>" of extractContactsFromMarkdown.
TitleFirstPattern == 3

\* C16 as stated: from a title-first match "<Title>: <Name>" of
\* extractContactsFromMarkdown comes a contact with the name as fullName
\* and the role as title: no other contact comes from it, and this one
\* does when the name is a valid one.
C16_TitleFirstNameAndTitle ==
    \A i \in DOMAIN extractions :
        LET txt == extractions[i].text
            out == extractions[i].out
        IN  (extractor = "markdown" /\ Len(txt) = 1
                /\ txt[1].pattern = TitleFirstPattern) =>
                /\ \A k \in DOMAIN out :
                      out[k] = [fullName |-> txt[1].g2, title |-> txt[1].g1]
                /\ txt[1].g2 = JoXy => out # << >>

\* ------------------------------------------------------ requests, delays

\* C17: with an API key the search pass issues exactly three requests, the
\* k-th for the k-th query of the list (founders, CEO/founder, managers),
\* none of them twice, and also after requests that failed.
C17_ThreeQueriesInOrder ==
    /\ [][nSearchReq' # nSearchReq =>
            /\ nSearchReq' = nSearchReq + 1
            /\ inflight' \ inflight = { <<"search", nSearchReq'>> }]_vars
    /\ [](nSearchReq <= NumQueries)
    /\ []((pc = "done" /\ apiKey) => nSearchReq = NumQueries)
    /\ []((pc = "done" /\ ~apiKey) => nSearchReq = 0)

\* C17 witness: the first two requests failed and the third is under way.
C17_Witness ==
    /\ searchFails = 2
    /\ inflight = { <<"search", NumQueries>> }

\* C18 as stated: a pass comes to its next request only through a delay,
\* also when the request before failed or found nothing.
C18_DelayBeforeNextRequest ==
    /\ [][pc' = "search_loop" => pc = "search_delay"]_vars
    /\ [][(pc' = "team_loop" /\ pc # "start") => pc = "team_delay"]_vars

\* ------------------------------------------------- bulk contact discovery

\* Leads are taken in list order, one at a time: the k-th discovery started
\* is that of the k-th lead, at most one awaited call is under way and it
\* belongs to the lead started last, and no insert is made for a lead whose
\* discovery has not returned its contacts.
LeadsInOrder ==
    /\ \A k \in DOMAIN started : started[k] = k
    /\ Cardinality(bulkInflight) <= 1
    /\ \A call \in bulkInflight :
          call[1] # "select" => call[2] = Len(started)
    /\ \A i \in DOMAIN handled :
          /\ handled[i].answered <= handled[i].found
          /\ i > Len(started) => handled[i].found = 0

\* C19 as stated: leads are handled one at a time in list order, the next
\* lead starts only after discovery and saving for the current one are
\* over, and the delay between leads is awaited between every two leads
\* handled one after the other, also after a lead without contacts or with
\* a failure.
C19_SequentialWithDelay ==
    /\ []LeadsInOrder
    /\ [][Len(started') > Len(started) =>
            \A i \in DOMAIN started : i \in delayedAfter]_vars

\* -------------------------------------------------------------- scraping

\* No two rows of the table leads have the same place_id, unless it is null.
NoDuplicatePlaceId ==
    \A i, j \in DOMAIN leadsTable :
        (leadsTable[i].place_id = leadsTable[j].place_id
            /\ leadsTable[i].place_id # "null") => i = j

\* The place being processed has a place_id that is in the table.
KnownPlace == placeId # "null" /\ RowsWith(leadsTable, placeId) # {}

\* C20: after scrape runs made one after another no two rows share a
\* non-null place_id.  A place whose place_id is in the table is looked up
\* and then updated, and no row is inserted for it; a place with a new
\* place_id gets one new row; when a database call fails the table stays
\* as it is.
C20_NoDuplicatePlaces ==
    /\ []NoDuplicatePlaceId
    /\ [][(scrapePc = "select_wait" /\ KnownPlace /\ ~callFailed')
            => scrapePc' = "update_wait"]_vars
    /\ [][(scrapePc \in {"update_wait", "insert_wait"}
             /\ scrapePc' \in {"place", "start"}) =>
            IF callFailed' THEN leadsTable' = leadsTable
            ELSE IF KnownPlace
            THEN \E i \in RowsWith(leadsTable, placeId) :
                    leadsTable' =
                        [leadsTable EXCEPT ![i].last_updated = runNo]
            ELSE leadsTable' =
                    Append(leadsTable, [place_id |-> placeId,
                                        job_id |-> runNo,
                                        last_updated |-> 0])]_vars
    /\ [][scrapePc \notin {"update_wait", "insert_wait"}
            => leadsTable' = leadsTable]_vars

\* C20 witness: the second run found a place of the first run again and
\* updated its row, and the table has a row for another place too.
C20_Witness ==
    /\ runNo = 2
    /\ Len(leadsTable) = 2
    /\ leadsTable[1] = [place_id |-> "p1", job_id |-> 1, last_updated |-> 2]
    /\ leadsTable[2].place_id = "p2"

\* --------------------------------------------------- stopping the page pass

\* C21: scrapeTeamPage stops fetching after the first page on which
\* contacts are found: once some path has yielded a contact, no later path
\* is requested.
C21_NoRequestAfterContacts ==
    [][(pc = "team_loop" /\ pc' = "team_wait") => Len(contacts) = 0]_vars

\* ------------------------------------------------------ the search pass

\* The indices of cs at which a name, ignoring case, is seen first.
FirstSeen(cs) ==
    { i \in DOMAIN cs :
        \A j \in 1..(i - 1) :
            ToLowerCase(cs[j].fullName) # ToLowerCase(cs[i].fullName) }

\* The k-th smallest index of FirstSeen(cs).
NthFirstSeen(cs, k) ==
    CHOOSE i \in FirstSeen(cs) :
        Cardinality({ j \in FirstSeen(cs) : j <= i }) = k

\* C22: searchForDecisionMakers returns at most 5 contacts, no two with
\* the same fullName ignoring case, and they are the first 5 distinct
\* names in first-seen order across the queries and results; without an
\* API key it returns the empty list and issues no request.
C22_FirstFiveDistinct ==
    pc = "done" =>
        /\ Len(googleContacts) <= 5
        /\ \A i, j \in DOMAIN googleContacts :
              ToLowerCase(googleContacts[i].fullName)
                = ToLowerCase(googleContacts[j].fullName) => i = j
        /\ Len(googleContacts) = Min(5, Cardinality(FirstSeen(gContacts)))
        /\ \A k \in DOMAIN googleContacts :
              googleContacts[k] = gContacts[NthFirstSeen(gContacts, k)]
        /\ ~apiKey => (googleContacts = << >> /\ nSearchReq = 0)

\* C22 witness: the pass has returned five contacts out of more than five
\* distinct names, some of which were found more than once.
C22_Witness ==
    /\ pc = "done"
    /\ apiKey
    /\ Len(googleContacts) = 5
    /\ Cardinality(FirstSeen(gContacts)) > 5
    /\ Len(gContacts) > Cardinality(FirstSeen(gContacts))

\* ------------------------------------------- the page pass terminates

\* C23: the page pass fetches the paths in their list order, each path at
\* most once (the k-th fetch is of the k-th path), makes at most 8 page
\* fetches, and returns whatever contents, empty results and errors the
\* fetches give.
C23_OrderedBoundedTerminating ==
    /\ [][(fcPc = "loop" /\ fcPc' = "wait")
            => fcPathIdx = FetchesMade + 1]_vars
    /\ [](FetchesMade <= NumFcPaths /\ NumFcPaths <= 8)
    /\ <>(fcPc = "done" /\ fcResult.returned)

\* C23 witness: every path was fetched, giving no content, an error and a
\* page without contacts, and the function has returned.
C23_Witness ==
    /\ fcPc = "done"
    /\ fcResult.returned
    /\ Len(fcLog) = NumFcPaths
    /\ fcLog[1].kind = "result" /\ ~fcLog[1].markdown
    /\ FailedOtherwise(2)
    /\ fcLog[3].kind = "result" /\ fcLog[3].markdown /\ fcLog[3].found = << >>

\* ------------------------------------------- errors of the bulk route

\* The leads whose contact loop ran to completion.
LoopCompleted ==
    { i \in 1..leadCount :
        /\ handled[i].found > 0
        /\ handled[i].answered = handled[i].found
        /\ ~handled[i].threw }

\* The sum of f[1] .. f[n].
RECURSIVE SumTo(_, _)
SumTo(f, n) == IF n = 0 THEN 0 ELSE f[n] + SumTo(f, n - 1)

\* The number of inserts that succeeded, over all leads.
InsertsSucceeded == SumTo([i \in DOMAIN handled |-> handled[i].saved], leadCount)

\* The number of inserts that gave an error, over all leads.
InsertsFailed ==
    SumTo([i \in DOMAIN handled |-> handled[i].answered - handled[i].saved],
          leadCount)

\* C24: an exception while one lead is processed is recorded in errors and
\* the next lead is processed; the request answers success; leadsProcessed
\* counts the leads whose contact loop ran to completion and contactsFound
\* the contact inserts that succeeded.
C24_LeadErrorsRecorded ==
    /\ [](\A i \in DOMAIN handled : handled[i].threw =>
            /\ bulkErrors >= 1
            /\ (i < leadCount /\ bulkPc = "done") => i + 1 \in Range(started))
    /\ []((bulkPc = "done" /\ leadCount > 0) =>
            /\ bulkResponse = 200
            /\ started = [i \in 1..leadCount |-> i]
            /\ leadsProcessed = Cardinality(LoopCompleted)
            /\ totalContactsFound = InsertsSucceeded
            /\ bulkErrors = InsertsFailed
                    + Cardinality({ i \in 1..leadCount : handled[i].threw }))
    /\ [][(\E i \in DOMAIN handled : handled'[i].threw /\ ~handled[i].threw)
            => (bulkErrors' = bulkErrors + 1 /\ leadIdx' = leadIdx + 1
                /\ bulkPc' = (IF leadIdx < leadCount THEN "loop" ELSE "done"))]_vars

\* C24 witness: the first lead threw after an insert had succeeded, the
\* second lost an insert, the third was processed to the end, and the
\* request has been answered.
C24_Witness ==
    /\ bulkPc = "done"
    /\ bulkResponse = 200
    /\ leadCount = 3
    /\ handled[1].threw /\ handled[1].saved = 1
    /\ ~handled[2].threw /\ handled[2].saved < handled[2].answered
    /\ 3 \in LoopCompleted
    /\ leadsProcessed = 2

\* ------------------------------------------------ market-wide discovery

\* C25: the market route never runs discovery for, nor inserts contacts
\* for, a lead that has a contact row when it is checked; so a request made
\* after another one was answered adds no contact to a lead that got
\* contacts from the earlier one.
C25_NoDiscoveryForLeadWithContacts ==
    /\ [](\A d \in mDiscovered : d[3] = 0)
    /\ [](\A r \in Requests : \A l \in 1..MaxMarketLeads :
            contactRows[l][r] > 0 => << r, l, 0 >> \in mDiscovered)
    /\ [](\A r, q \in Requests : \A l \in 1..MaxMarketLeads :
            (q \in mStartedAfter[r] /\ contactRows[l][q] > 0)
                => contactRows[l][r] = 0)

\* C30: when two market requests overlap, the contacts of a lead are
\* inserted by at most one of them, under every interleaving of their
\* checks and inserts.
C30_InsertedByAtMostOneRequest ==
    \A l \in 1..MaxMarketLeads :
        ~(contactRows[l][1] > 0 /\ contactRows[l][2] > 0)

\* ------------------------------------------------- validation credits

\* The positions of the validating route inside its lead loop.
InLeadLoop ==
    zPc \in {"lead", "discover_wait", "variation", "validate_wait", "insert",
             "insert_wait", "refresh_wait"}

\* C26: with known credits, no lead is processed when fewer than 10 are
\* left at the start; the tracked quota goes down by exactly 1 per
\* validateEmail call, is never negative, and validateEmail is not called
\* while it is 0 or less; the validation of a contact stops at the first
\* variation found valid or catch-all, which is the email persisted, and
\* otherwise null with status unknown is persisted.
C26_QuotaAndFirstUsableEmail ==
    /\ []((quotaAtStart.type = "number" /\ quotaAtStart.value < 10) =>
            (zPc = "done" /\ zStarted = 0 /\ totalEmailsValidated = 0))
    /\ []((InLeadLoop /\ quotaAtStart.type = "number") =>
            /\ quotaRemaining.type = "number"
            /\ quotaRemaining.value >= 0
            /\ quotaRemaining.value
                  = quotaAtStart.value - totalEmailsValidated)
    /\ [][(zPc = "variation" /\ zPc' = "validate_wait") =>
            /\ quotaRemaining.type = "number" => quotaRemaining.value > 0
            /\ validEmail = 0]_vars
    /\ [][(zPc = "validate_wait" /\ quotaRemaining.type = "number") =>
            /\ quotaRemaining'.value = quotaRemaining.value - 1
            /\ totalEmailsValidated' = totalEmailsValidated + 1]_vars
    /\ [][zPc = "validate_wait" =>
            IF zAnswer' \in {"valid", "catch-all"}
            THEN /\ zPc' = "insert"
                 /\ validEmail' = zVariationIdx
                 /\ emailStatus' = zAnswer'
            ELSE /\ validEmail' = 0
                 /\ emailStatus' = "unknown"]_vars
    /\ [][(zPc = "insert" /\ zPc' = "insert_wait") =>
            /\ zRow' = [email |-> validEmail, email_status |-> emailStatus]
            /\ validEmail = 0 => emailStatus = "unknown"
            /\ validEmail # 0 =>
                  (zAnswer = emailStatus
                     /\ emailStatus \in {"valid", "catch-all"}
                     /\ validEmail = zVariationIdx)]_vars

\* C26 witness: the quota was 10 at the start and is used up, so a contact
\* is persisted without an email and with status unknown.
C26_Witness ==
    /\ quotaAtStart = [type |-> "number", value |-> 10]
    /\ quotaRemaining = [type |-> "number", value |-> 0]
    /\ totalEmailsValidated = 10
    /\ zPc = "insert_wait"
    /\ zRow = [email |-> 0, email_status |-> "unknown"]

\* ------------------------------------------------ domain normalisation

\* C27: extractDomain is idempotent, extractDomain(extractDomain(w)) =
\* extractDomain(w), and so generateEmails(f, l, extractDomain(w)) =
\* generateEmails(f, l, w).
C27_ExtractDomainIdempotent ==
    normalized.called =>
        /\ normalized.twice = normalized.once
        /\ emailResult.called => normalized.emails = emailResult.emails

\* --------------------------------------------------- status of a job

\* The ways a job's status may have moved so far.
StatusPaths ==
    { << >>, <<"pending">>, <<"pending", "running">>,
      <<"pending", "running", "completed">>,
      <<"pending", "running", "failed">> }

\* C28: a job's status only moves pending -> running -> completed or
\* pending -> running -> failed, and when POST /api/scrape has answered
\* after the job row was created the status is completed or failed, also
\* when the provider call or a database write fails.
C28_StatusPathAndTerminalOnReturn ==
    \A j \in 1..MaxRuns :
        /\ jobHistory[j] \in StatusPaths
        /\ (jobResponse[j] # 0 /\ jobStatus[j] # "none")
              => jobStatus[j] \in {"completed", "failed"}

\* ---------------------------------------------------- keeping the best data

\* The data columns of a lead.
DataColumns ==
    { "address", "phone", "website", "email", "email_found_at", "category",
      "rating", "review_count" }

\* C29: the update of an existing lead replaces no stored non-null value
\* of a data column by null, and leaves id, job_id and place_id as they
\* are.
C29_NoValueLostOnUpdate ==
    rowAfter.done =>
        /\ \A col \in DataColumns :
              existingRow[col] # "null" => rowAfter.row[col] # "null"
        /\ rowAfter.row.id = existingRow.id
        /\ rowAfter.row.job_id = existingRow.job_id
        /\ rowAfter.row.place_id = existingRow.place_id

====
